---- MODULE Spec2Model ----
(***************************************************************************)
(* Model of the statement decoding pipeline of agentic-ledger-ai           *)
(* (src/gmail_fetcher/pdf_parser.py).                                      *)
(*                                                                         *)
(* Texts are TLA+ strings handled character by character (Len, SubSeq,     *)
(* Head, Tail, \o), so substring tests, strip, split and the regular       *)
(* expressions of the parser are computed the way Python computes them.    *)
(* Modelled alphabet: ASCII; whitespace is space, tab, CR and LF.          *)
(***************************************************************************)
EXTENDS Integers, Sequences, FiniteSets, TLC

(***************************************************************************)
(* Python string primitives                                                *)
(***************************************************************************)

\* s[i] as a one-character string (1-based)
Char(s, i) == SubSeq(s, i, i)

\* str.isdigit for one ASCII character / the regex class \d
IsDigit(c) == c \in {"0", "1", "2", "3", "4", "5", "6", "7", "8", "9"}

\* the regex class \s and the characters str.strip() removes
IsSpace(c) == c \in {" ", "\t", "\n", "\r"}

\* the class [\d,.()] instead: an amount in parentheses reaches parse_amount
IsAmountCharOrParenthesis(c) == IsDigit(c) \/ c \in {",", ".", "(", ")"}

\* the regex class [\d,.]
IsAmountChar(c) == IsDigit(c) \/ c = "," \/ c = "."

DigitVal(c) ==
    CASE c = "0" -> 0 [] c = "1" -> 1 [] c = "2" -> 2 [] c = "3" -> 3
      [] c = "4" -> 4 [] c = "5" -> 5 [] c = "6" -> 6 [] c = "7" -> 7
      [] c = "8" -> 8 [] c = "9" -> 9

\* every character of s is a digit (the empty string included)
AllDigits(s) == \A i \in 1..Len(s) : IsDigit(Char(s, i))

\* int(s) for a string of digits
RECURSIVE ToInt(_)
ToInt(s) ==
    IF s = "" THEN 0
    ELSE 10 * ToInt(SubSeq(s, 1, Len(s) - 1)) + DigitVal(Char(s, Len(s)))

\* Python's "sub in s"
Contains(s, sub) ==
    \E i \in 1..(Len(s) - Len(sub) + 1) : SubSeq(s, i, i + Len(sub) - 1) = sub

\* s.startswith(sub) at offset i (1-based): sub occurs in s at index i
OccursAt(s, sub, i) ==
    /\ i >= 1
    /\ i + Len(sub) - 1 <= Len(s)
    /\ SubSeq(s, i, i + Len(sub) - 1) = sub

\* s.strip()
Strip(s) ==
    LET keep == {i \in 1..Len(s) : ~IsSpace(Char(s, i))}
    IN  IF keep = {} THEN ""
        ELSE LET lo == CHOOSE i \in keep : \A j \in keep : i <= j
                 hi == CHOOSE i \in keep : \A j \in keep : i >= j
             IN  SubSeq(s, lo, hi)

\* s.replace(c, "") for a one-character c
RECURSIVE Remove(_, _)
Remove(s, c) ==
    IF s = "" THEN ""
    ELSE (IF Head(s) = c THEN "" ELSE Head(s)) \o Remove(Tail(s), c)

\* s.split("\n"): always at least one element
RECURSIVE SplitLines(_)
SplitLines(s) ==
    LET nl == {i \in 1..Len(s) : Char(s, i) = "\n"}
    IN  IF nl = {} THEN <<s>>
        ELSE LET i == CHOOSE k \in nl : \A j \in nl : k <= j
             IN  <<SubSeq(s, 1, i - 1)>> \o SplitLines(SubSeq(s, i + 1, Len(s)))

\* number of consecutive \s characters of s starting at index i
WsRun(s, i) ==
    LET stop == {j \in i..Len(s) : ~IsSpace(Char(s, j))}
    IN  IF i > Len(s) THEN 0
        ELSE IF stop = {} THEN Len(s) - i + 1
        ELSE (CHOOSE j \in stop : \A k \in stop : j <= k) - i

\* number of consecutive [\d,.] characters of s starting at index i
AmountRun(s, i) ==
    LET stop == {j \in i..Len(s) : ~IsAmountChar(Char(s, j))}
    IN  IF i > Len(s) THEN 0
        ELSE IF stop = {} THEN Len(s) - i + 1
        ELSE (CHOOSE j \in stop : \A k \in stop : j <= k) - i

(***************************************************************************)
(* Values                                                                  *)
(***************************************************************************)

\* Python's None, for optional dates and amounts
None == [none |-> TRUE]

\* the ValueError raised by float() and caught nowhere in parse_transactions
ValueError == [error |-> "ValueError"]

\* a decimal value num * 10^(-exp), with no trailing zero in the fraction
RECURSIVE Normal(_, _)
Normal(num, exp) ==
    IF exp > 0 /\ num % 10 = 0 THEN Normal(num \div 10, exp - 1)
    ELSE [num |-> num, exp |-> exp]

IsLeap(y) == (y % 4 = 0 /\ y % 100 /= 0) \/ y % 400 = 0

DaysInMonth(y, m) ==
    IF m \in {4, 6, 9, 11} THEN 30
    ELSE IF m = 2 THEN (IF IsLeap(y) THEN 29 ELSE 28)
    ELSE 31

\* datetime(y, m, d) is constructible (datetime.MINYEAR = 1)
ValidDate(y, m, d) ==
    /\ y >= 1
    /\ m \in 1..12
    /\ d >= 1
    /\ d <= DaysInMonth(y, m)

(***************************************************************************)
(* Dates and amounts (pdf_parser.py, parse_date and parse_amount)          *)
(*                                                                         *)
(* Intermediate values are passed on as operator parameters, one operator  *)
(* per step of the computation.                                            *)
(***************************************************************************)

\* the least element of a non-empty set of indices
Least(S) == CHOOSE i \in S : \A j \in S : i <= j

\* the greatest element of a non-empty set of indices
Greatest(S) == CHOOSE i \in S : \A j \in S : i >= j

\* indices of the one-character separator sep in s
SepPositions(s, sep) == {i \in 1..Len(s) : Char(s, i) = sep}

\* the three fields of s around its two separators, <<>> when s does not
\* hold exactly two
FieldsBetween(s, at) ==
    IF Cardinality(at) /= 2 THEN <<>>
    ELSE <<SubSeq(s, 1, Least(at) - 1),
           SubSeq(s, Least(at) + 1, Greatest(at) - 1),
           SubSeq(s, Greatest(at) + 1, Len(s))>>

\* datetime(y, m, d), or the ValueError of an impossible date
DateOf(y, m, d) ==
    IF ValidDate(y, m, d) THEN [year |-> y, month |-> m, day |-> d]
    ELSE ValueError

\* the date of three fields: two numeric fields of one or two digits, in
\* the order the format gives, and a year of exactly four digits
DateOfFields(f, month_first) ==
    IF /\ f /= <<>>
       /\ Len(f[1]) \in 1..2 /\ AllDigits(f[1])
       /\ Len(f[2]) \in 1..2 /\ AllDigits(f[2])
       /\ Len(f[3]) = 4 /\ AllDigits(f[3])
    THEN DateOf(ToInt(f[3]),
                ToInt(f[IF month_first THEN 1 ELSE 2]),
                ToInt(f[IF month_first THEN 2 ELSE 1]))
    ELSE ValueError

\* datetime.strptime(s, fmt) for the two formats the parser uses,
\* "%m/%d/%Y" and "%d-%m-%Y". A ValueError is returned as ValueError.
strptime(s, fmt) ==
    DateOfFields(FieldsBetween(s, SepPositions(s, Char(fmt, 3))),
                 Char(fmt, 2) = "m")

\* try: return ... except ValueError: return None
NoneIfError(r) == IF r = ValueError THEN None ELSE r

\* parse_date: a date, or None when strptime raises ValueError
parse_date(date_str) == NoneIfError(strptime(Strip(date_str), "%m/%d/%Y"))

\* the value of the digits whole.frac, or ValueError when they are no number
DecimalOf(whole, frac) ==
    IF AllDigits(whole) /\ AllDigits(frac) /\ Len(whole) + Len(frac) >= 1
    THEN Normal(ToInt(whole \o frac), Len(frac))
    ELSE ValueError

\* an unsigned decimal literal with its "." at the indices dots
UnsignedAt(body, dots) ==
    IF dots = {} THEN DecimalOf(body, "")
    ELSE IF Cardinality(dots) > 1 THEN ValueError
    ELSE DecimalOf(SubSeq(body, 1, Least(dots) - 1),
                   SubSeq(body, Least(dots) + 1, Len(body)))

Unsigned(body) == UnsignedAt(body, {i \in 1..Len(body) : Char(body, i) = "."})

Negated(v) == IF v = ValueError THEN v ELSE [num |-> 0 - v.num, exp |-> v.exp]

\* float(t) for a stripped decimal literal: an optional sign, digits with
\* at most one ".", at least one digit. Exponents, underscores, "inf" and
\* "nan" are outside the modelled alphabet.
FloatOfStripped(t) ==
    IF Len(t) >= 1 /\ Char(t, 1) = "-" THEN Negated(Unsigned(SubSeq(t, 2, Len(t))))
    ELSE IF Len(t) >= 1 /\ Char(t, 1) = "+" THEN Unsigned(SubSeq(t, 2, Len(t)))
    ELSE Unsigned(t)

\* float(s): surrounding whitespace is ignored
float(s) == FloatOfStripped(Strip(s))

\* lines 91-93 with the parentheses taken off and no "-" put in front
AmountOfCleanedUnsigned(cleaned) ==
    float(IF /\ Len(cleaned) >= 1
             /\ Char(cleaned, 1) = "("
             /\ Char(cleaned, Len(cleaned)) = ")"
          THEN SubSeq(cleaned, 2, Len(cleaned) - 1)
          ELSE cleaned)

\* lines 91-93 of parse_amount, on the cleaned text
AmountOfCleaned(cleaned) ==
    float(IF /\ Len(cleaned) >= 1
             /\ Char(cleaned, 1) = "("
             /\ Char(cleaned, Len(cleaned)) = ")"
          THEN "-" \o SubSeq(cleaned, 2, Len(cleaned) - 1)
          ELSE cleaned)

\* parse_amount: a decimal value, or ValueError when float() raises
parse_amount(amount_str) ==
    AmountOfCleaned(Strip(Remove(Remove(amount_str, "$"), ",")))

(***************************************************************************)
(* The transaction line pattern (pdf_parser.py, lines 162-165)             *)
(***************************************************************************)

\* the regex \d{2}/\d{2}/\d{4} matches the whole of s
IsDatePat(s) ==
    /\ Len(s) = 10
    /\ \A i \in {1, 2, 4, 5, 7, 8, 9, 10} : IsDigit(Char(s, i))
    /\ Char(s, 3) = "/"
    /\ Char(s, 6) = "/"

NoMatch == [matched |-> FALSE]

\* \$? at index a: the index after the "$" when there is one
DollarSkip(text, a) ==
    IF a <= Len(text) /\ Char(text, a) = "$" THEN a + 1 ELSE a

\* ([\d,.]+) at index a: the longest run
AmountGroup(text, a) ==
    IF AmountRun(text, a) >= 1
    THEN [matched |-> TRUE, g1 |-> SubSeq(text, a, a + AmountRun(text, a) - 1),
          end |-> a + AmountRun(text, a)]
    ELSE NoMatch

\* the pattern without its final \s*$: the amount need not end the line
ToLineEndUnanchored(line, m) == m

\* \s*$ after a matched amount group
ToLineEnd(line, m) ==
    IF m.matched /\ m.end + WsRun(line, m.end) = Len(line) + 1 THEN m ELSE NoMatch

\* the regex tail \s+\$?([\d,.]+)\s*$ matched at index i of line
AmountTail(line, i) ==
    IF WsRun(line, i) >= 1
    THEN ToLineEnd(line, AmountGroup(line, DollarSkip(line, i + WsRun(line, i))))
    ELSE NoMatch

\* the ways to match \s+(.+?) after the second date, which ends at e2, so
\* that the tail matches: <<k, q>> when \s+ takes k characters and group 3
\* is line[e2+k+1 .. q]
TxCands(line, e2) ==
    {kq \in (1..WsRun(line, e2 + 1)) \X (1..Len(line)) :
        /\ kq[2] >= e2 + kq[1] + 1
        /\ \A j \in (e2 + kq[1] + 1)..kq[2] : Char(line, j) /= "\n"
        /\ AmountTail(line, kq[2] + 1).matched}

\* \s+ is greedy and gives back one character at a time, (.+?) is lazy and
\* takes one more character at a time: the match found has the longest
\* \s+ and then the shortest group 3
FirstTried(cands) ==
    CHOOSE kq \in cands :
        \A o \in cands : kq[1] > o[1] \/ (kq[1] = o[1] /\ kq[2] <= o[2])

TxGroups(line, s2, kq) ==
    [matched |-> TRUE,
     g1 |-> SubSeq(line, 1, 10),
     g2 |-> SubSeq(line, s2, s2 + 9),
     g3 |-> SubSeq(line, s2 + 9 + kq[1] + 1, kq[2]),
     g4 |-> AmountTail(line, kq[2] + 1).g1]

TxTail(line, s2, cands) ==
    IF cands = {} THEN NoMatch ELSE TxGroups(line, s2, FirstTried(cands))

\* the pattern with the second date at index s2
TxFrom(line, s2) ==
    IF /\ Len(line) >= 10
       /\ IsDatePat(SubSeq(line, 1, 10))
       /\ s2 > 11
       /\ s2 + 9 <= Len(line)
       /\ IsDatePat(SubSeq(line, s2, s2 + 9))
    THEN TxTail(line, s2, TxCands(line, s2 + 9))
    ELSE NoMatch

\* re.match(r"(\d{2}/\d{2}/\d{4})\s+(\d{2}/\d{2}/\d{4})\s+(.+?)\s+\$?([\d,.]+)\s*$", line)
tx_match(line) == TxFrom(line, 11 + WsRun(line, 11))

(***************************************************************************)
(* The summary patterns (pdf_parser.py, lines 113-129)                     *)
(***************************************************************************)

\* the regex \d{2}-\d{2}-\d{4} matches text at index i
IsDashDateAt(text, i) ==
    /\ i + 9 <= Len(text)
    /\ \A k \in {0, 1, 3, 4, 6, 7, 8, 9} : IsDigit(Char(text, i + k))
    /\ Char(text, i + 2) = "-"
    /\ Char(text, i + 5) = "-"

\* the index after the \s* that starts at index i
SkipWs(text, i) == i + WsRun(text, i)

\* (\d{2}-\d{2}-\d{4})\s*-\s*(\d{2}-\d{2}-\d{4}) with the first date at s1
\* and the second at s2
BillDates(text, s1, s2) ==
    IF IsDashDateAt(text, s1) /\ IsDashDateAt(text, s2)
    THEN [matched |-> TRUE,
          g1 |-> SubSeq(text, s1, s1 + 9),
          g2 |-> SubSeq(text, s2, s2 + 9)]
    ELSE NoMatch

\* the pattern's \s*-\s* with the "-" expected at index d
BillDash(text, s1, d) ==
    IF d <= Len(text) /\ Char(text, d) = "-"
    THEN BillDates(text, s1, SkipWs(text, d + 1))
    ELSE NoMatch

BillFirstDate(text, s1) == BillDash(text, s1, SkipWs(text, s1 + 10))

\* Bill Period:\s*(\d{2}-\d{2}-\d{4})\s*-\s*(\d{2}-\d{2}-\d{4}) tried at index i
BillPeriodAt(text, i) ==
    IF OccursAt(text, "Bill Period:", i)
    THEN BillFirstDate(text, SkipWs(text, i + Len("Bill Period:")))
    ELSE NoMatch

BillPeriodFirst(text, at) ==
    IF at = {} THEN NoMatch ELSE BillPeriodAt(text, Least(at))

\* re.search of the bill period pattern: the leftmost match
bill_period_match(text) ==
    BillPeriodFirst(text, {i \in 1..Len(text) : BillPeriodAt(text, i).matched})

\* Previous Balance\s*\$?([\d,.]+) tried at index i
PrevBalanceAt(text, i) ==
    IF OccursAt(text, "Previous Balance", i)
    THEN AmountGroup(text,
             DollarSkip(text, SkipWs(text, i + Len("Previous Balance"))))
    ELSE NoMatch

PrevBalanceFirst(text, at) ==
    IF at = {} THEN NoMatch ELSE PrevBalanceAt(text, Least(at))

\* re.search of the previous balance pattern: the leftmost match
prev_balance_match(text) ==
    PrevBalanceFirst(text, {i \in 1..Len(text) : PrevBalanceAt(text, i).matched})

\* the index of the first "$" of text at or after a0, Len(text) + 1 when
\* there is none
FirstDollar(text, a0) ==
    Least({j \in a0..(Len(text) + 1) : j = Len(text) + 1 \/ Char(text, j) = "$"})

\* [^\$]* gave back characters: the group starts at the last [\d,.]
\* character before the "$"
GivenBack(text, back) ==
    IF back = {} THEN NoMatch ELSE AmountGroup(text, Greatest(back))

\* [^\$]*\$?([\d,.]+) from index a0, d being the first "$": [^\$]* is
\* greedy, it runs to d (newlines included) and then gives back one
\* character at a time until [\d,.]+ can start
NewBalanceFrom(text, a0, d) ==
    IF d <= Len(text) /\ AmountRun(text, d + 1) >= 1
    THEN AmountGroup(text, d + 1)
    ELSE GivenBack(text, {j \in a0..(d - 1) : IsAmountChar(Char(text, j))})

\* New Balance[^\$]*\$?([\d,.]+) tried at index i
NewBalanceAt(text, i) ==
    IF OccursAt(text, "New Balance", i)
    THEN NewBalanceFrom(text, i + Len("New Balance"),
                        FirstDollar(text, i + Len("New Balance")))
    ELSE NoMatch

NewBalanceFirst(text, at) ==
    IF at = {} THEN NoMatch ELSE NewBalanceAt(text, Least(at))

\* re.search of the new balance pattern: the leftmost match
new_balance_match(text) ==
    NewBalanceFirst(text, {i \in 1..Len(text) : NewBalanceAt(text, i).matched})

\* StatementSummary(): every field None
StatementSummary ==
    [bill_period_start |-> None, bill_period_end |-> None,
     previous_balance |-> None, new_balance |-> None,
     payment_due_date |-> None, minimum_payment |-> None,
     payments |-> None, purchases |-> None]

\* lines 116-120: the two assignments inside the try; a ValueError of
\* either strptime is swallowed, but an assignment made before it stays
BillDatesInto(summary, start, end) ==
    IF start = ValueError THEN summary
    ELSE IF end = ValueError THEN [summary EXCEPT !.bill_period_start = start]
    ELSE [summary EXCEPT !.bill_period_start = start, !.bill_period_end = end]

\* lines 115-120 with the dates read month first, as transaction dates are
BillPeriodIntoMonthFirst(summary, m) ==
    IF ~m.matched THEN summary
    ELSE BillDatesInto(summary, strptime(m.g1, "%m-%d-%Y"),
                       strptime(m.g2, "%m-%d-%Y"))

\* lines 115-120
BillPeriodInto(summary, m) ==
    IF ~m.matched THEN summary
    ELSE BillDatesInto(summary, strptime(m.g1, "%d-%m-%Y"),
                       strptime(m.g2, "%d-%m-%Y"))

\* lines 114-120: the bill period
with_bill_period(summary, first_page) ==
    BillPeriodInto(summary, bill_period_match(first_page))

\* lines 124-125 and 128-129: the balance of a match; None when the
\* pattern did not match and the field keeps its default
BalanceOf(m) == IF m.matched THEN parse_amount(m.g1) ELSE None

\* lines 123-129: the balances assigned, unless parse_amount raised
with_balances(summary, prev, new) ==
    IF prev = ValueError \/ new = ValueError THEN ValueError
    ELSE [summary EXCEPT !.previous_balance = prev, !.new_balance = new]

\* lines 111-129: the summary of the first page
summary_of(first_page) ==
    with_balances(with_bill_period(StatementSummary, first_page),
                  BalanceOf(prev_balance_match(first_page)),
                  BalanceOf(new_balance_match(first_page)))

\* the summary taken from pages_text[-1], the last page
parse_summary_of_last_page(pages) ==
    IF pages = <<>> THEN StatementSummary ELSE summary_of(pages[Len(pages)])

\* lines 107-129: the summary, or ValueError when parse_amount raises on a
\* matched balance
parse_summary(pages) ==
    IF pages = <<>> THEN StatementSummary ELSE summary_of(pages[1])

(***************************************************************************)
(* The page loop of parse_transactions (pdf_parser.py, lines 132-180)      *)
(***************************************************************************)

\* no marker test: every page is scanned
qualifies_every_page(page_text) == TRUE

\* line 133: a page is scanned only when it contains the marker
qualifies(page_text) == Contains(page_text, "Account Activity")

\* line 137: current_section at the start of a scanned page (Python's None)
NoSection == "None"

\* the tests of lines 143-153 with the debits tested before the credits
header_of_debits_first(line) ==
    IF Contains(line, "Purchases and Cash Advances") THEN "debit"
    ELSE IF Contains(line, "Payments and Other Credits") THEN "credit"
    ELSE IF Contains(line, "Fees and Interest Charged") THEN "fees"
    ELSE IF Contains(line, "Sub Total") \/ Contains(line, "No transaction available")
         THEN "skip"
    ELSE "no_header"

\* lines 143-153: what the header tests decide for a stripped line: the
\* section it opens, "skip" for a sub-total line, "no_header" when no test
\* applies
header_of(line) ==
    IF Contains(line, "Payments and Other Credits") THEN "credit"
    ELSE IF Contains(line, "Purchases and Cash Advances") THEN "debit"
    ELSE IF Contains(line, "Fees and Interest Charged") THEN "fees"
    ELSE IF Contains(line, "Sub Total") \/ Contains(line, "No transaction available")
         THEN "skip"
    ELSE "no_header"

\* "if not current_section" alone: the fees section is not excluded
is_candidate_in_fees(section) == section /= NoSection

\* line 156: the line is tried as a transaction only inside credits or debits
is_candidate(section) == ~(section = NoSection \/ section = "fees")

Nothing == [raised |-> FALSE, appended |-> <<>>]

\* lines 171-180: parse_amount has run; the Transaction is appended when
\* both dates parsed
Transaction(posted_date, transaction_date, description, amount, section) ==
    IF amount = ValueError THEN [raised |-> TRUE, appended |-> <<>>]
    ELSE IF posted_date /= None /\ transaction_date /= None
    THEN [raised |-> FALSE,
          appended |-> <<[posted_date      |-> posted_date,
                          transaction_date |-> transaction_date,
                          description      |-> description,
                          amount           |-> amount,
                          transaction_type |-> section]>>]
    ELSE Nothing

\* lines 167-171: the groups of a match are decoded
TransactionOfMatch(m, section) ==
    IF ~m.matched THEN Nothing
    ELSE Transaction(parse_date(m.g1), parse_date(m.g2), Strip(m.g3),
                     parse_amount(m.g4), section)

\* lines 162-180: what a candidate line does: it appends nothing or one
\* Transaction, or parse_amount (called before the dates are tested) raises
transaction_of(line, section) == TransactionOfMatch(tx_match(line), section)

\* LineStep without the "continue" of lines 152-153
LineStepPastSubTotal(section, line, h) ==
    IF h \in {"credit", "debit", "fees"}
    THEN [section |-> h, appended |-> <<>>, raised |-> FALSE]
    ELSE IF ~is_candidate(section)
    THEN [section |-> section, appended |-> <<>>, raised |-> FALSE]
    ELSE [section |-> section] @@ transaction_of(line, section)

\* lines 143-180 for a line whose header tests gave h
LineStep(section, line, h) ==
    IF h \in {"credit", "debit", "fees"}
    THEN [section |-> h, appended |-> <<>>, raised |-> FALSE]
    ELSE IF h = "skip" \/ ~is_candidate(section)
    THEN [section |-> section, appended |-> <<>>, raised |-> FALSE]
    ELSE [section |-> section] @@ transaction_of(line, section)

\* lines 141-180 for the stripped line
StrippedLineStep(section, line) == LineStep(section, line, header_of(line))

\* lines 140-180: one iteration of the line loop on raw_line in section
\* current_section: the section afterwards, the transactions appended and
\* whether a ValueError left the loop
loop_body(section, raw_line) == StrippedLineStep(section, Strip(raw_line))

\* transactions.insert(0, tx) instead: the newest first
insert_first(txs, appended) == appended \o txs

\* line 174: transactions.append(tx) for each appended transaction
append(txs, appended) == txs \o appended

(***************************************************************************)
(* Inputs                                                                  *)
(***************************************************************************)

\* the greatest number of pages of a statement
MaxPages == 2

Marker == "Account Activity"

\* a statement's first page: the summary block
SummaryBody ==
    "Bill Period: 01-03-2024 - 31-03-2024\nPrevious Balance $200.00\nNew Balance $350.25"

\* credits, a sub-total, then debits: the page ends inside the debits
ActivityBody ==
    "Payments and Other Credits\n04/05/2024 04/04/2024 PAYMENT RECEIVED $500.00\n"
    \o "Sub Total $500.00\nPurchases and Cash Advances\n"
    \o "04/02/2024  04/01/2024  AMAZON MKTPLACE  $45.67"

\* rows before any header (a continuation of the previous page), then fees
ContinuationBody ==
    "04/10/2024 04/09/2024 UBER TRIP $1,012.30\nFees and Interest Charged\n"
    \o "04/11/2024 04/11/2024 LATE FEE $25.00"

\* a page that ends inside the credits
CreditBody ==
    "  Payments and Other Credits  \n04/07/2024 04/06/2024 REFUND 9.99"

\* rows with impossible dates and a row that is not one
BadDateBody ==
    "Purchases and Cash Advances\n13/01/2024 04/01/2024 BAD MONTH $1.00\n"
    \o "04/12/2024 02/30/2024 BAD DAY $2.00\ncontinued on next page\n"
    \o "04/16/2024 04/15/2024 GROCER $7.50"

\* a row whose amount text is not a number
BadAmountBody ==
    "Purchases and Cash Advances\n04/13/2024 04/12/2024 ODD AMOUNT 1.2.3\n"
    \o "04/14/2024 04/13/2024 AFTER $3.00"

Bodies ==
    {SummaryBody, ActivityBody, ContinuationBody, CreditBody, BadDateBody,
     BadAmountBody}

\* every body with and without the marker line
PageTexts == Bodies \cup {Marker \o "\n" \o b : b \in Bodies}

\* single rows in the column layout: a posted and a transaction date, a
\* description and an amount, each drawn from texts that are and are not
\* what the parser accepts
RowDates ==
    {<<"04/02/2024", "04/01/2024">>, <<"13/01/2024", "04/01/2024">>,
     <<"02/29/2024", "02/30/2024">>, <<"04/03/2024", "04/32/2024">>,
     <<"01/01/0000", "12/31/2023">>}

RowDescriptions ==
    {"AMAZON MKTPLACE", "ITEM 12 OF 3", "Sub Total", "No transaction available",
     "Payments and Other Credits", "Fees and Interest Charged Sub Total",
     "Purchases and Cash Advances Payments and Other Credits"}

RowAmounts ==
    {"$45.67", "1,234.56", "0.00", "1.2.3", "...", "(5.00)", "($123.45)"}

Rows ==
    {d[1] \o " " \o d[2] \o "  " \o desc \o " " \o amt :
        d \in RowDates, desc \in RowDescriptions, amt \in RowAmounts}

\* lines that are not rows
OtherLines ==
    {"", "continued on next page", "Sub Total $500.00", "No transaction available",
     "Fees and Interest Charged", "4/2/2024 04/01/2024 SHORT DATE $1.00"}

\* the header line that opens a section ("" for none)
HeaderLine ==
    [None   |-> "",
     credit |-> "Payments and Other Credits\n",
     debit  |-> "Purchases and Cash Advances\n",
     fees   |-> "Fees and Interest Charged\n"]

\* one-page statements: a line met in each section, and a row after it
RowPageTexts ==
    {Marker \o "\n" \o HeaderLine[s] \o l \o "\n04/20/2024 04/19/2024 LAST ROW $8.00" :
        s \in DOMAIN HeaderLine, l \in Rows \cup OtherLines}

RowPdfs ==
    {[container_ok |-> TRUE, structure_ok |-> TRUE, bad_page |-> 0,
      pages |-> <<[has_text |-> TRUE, text |-> t]>>] : t \in RowPageTexts}

\* summary blocks of a first page: each of the three items is absent, well
\* formed, matched by its pattern but not decodable, or not matched
BillPeriodTexts ==
    {"", "Bill Period: 01-03-2024 - 31-03-2024", "Bill Period:29-02-2024-05-03-2024",
     "Bill Period: 31-02-2024 - 31-03-2024", "Bill Period: 01-03-2024 - 31-02-2024",
     "Bill Period: 03/01/2024 - 03/31/2024"}

PrevBalanceTexts ==
    {"", "Previous Balance $200.00", "Previous Balance 1.2.3", "Previous Balance: n/a"}

NewBalanceTexts ==
    {"", "New Balance $350.25", "New Balance $350.25.", "New Balance: see overleaf"}

\* the non-empty texts of a sequence, one per line
RECURSIVE JoinLines(_)
JoinLines(parts) ==
    IF parts = <<>> THEN ""
    ELSE IF Head(parts) = "" THEN JoinLines(Tail(parts))
    ELSE IF JoinLines(Tail(parts)) = "" THEN Head(parts)
    ELSE Head(parts) \o "\n" \o JoinLines(Tail(parts))

SummaryPageTexts ==
    {JoinLines(<<"Statement of Account", b, pb, nb>>) :
        b \in BillPeriodTexts, pb \in PrevBalanceTexts, nb \in NewBalanceTexts}

\* one-page statements that are a summary block
SummaryPdfs ==
    {[container_ok |-> TRUE, structure_ok |-> TRUE, bad_page |-> 0,
      pages |-> <<[has_text |-> TRUE, text |-> t]>>] : t \in SummaryPageTexts}

\* a page of the PDF: the text pdfplumber extracts, or none at all
PdfPages ==
    {[has_text |-> TRUE, text |-> t] : t \in PageTexts}
    \cup {[has_text |-> FALSE, text |-> ""]}

\* the page sequences of length at most n
RECURSIVE PageSeqs(_)
PageSeqs(n) ==
    IF n = 0 THEN {<<>>}
    ELSE LET shorter == PageSeqs(n - 1)
         IN  shorter \cup {Append(ps, pg) : ps \in {q \in shorter : Len(q) = n - 1},
                                           pg \in PdfPages}

\* the password the statements are encrypted with
UserPassword == "secret"

\* PDFs one of whose pages makes page.extract_text() raise: bad_page is the
\* number of that page (0: none)
BadPagePdfs ==
    {pdf \in [container_ok : {TRUE}, structure_ok : {TRUE}, bad_page : 1..MaxPages,
              pages : PageSeqs(MaxPages)] : pdf.bad_page <= Len(pdf.pages)}

\* the PDFs handed to parse_statement_pdf: a container that is or is not a
\* PDF, whose page tree pdfplumber can or cannot read
PdfInputs ==
    [container_ok : BOOLEAN, structure_ok : BOOLEAN, bad_page : {0},
     pages : PageSeqs(MaxPages)]
    \cup BadPagePdfs
    \cup RowPdfs
    \cup SummaryPdfs

Passwords == {UserPassword, "guess"}

(***************************************************************************)
(* State                                                                   *)
(***************************************************************************)

VARIABLES
    pdf_bytes,        \* parse_statement_pdf's argument
    password,         \* parse_statement_pdf's argument
    pc,               \* where parse_statement_pdf is
    ran,              \* the functions entered so far
    pages_text,       \* extract_text_from_pdf's result
    page_idx,         \* the page the for loop of line 132 is at (0: none yet)
    lines,            \* the lines of the page being scanned
    line_idx,         \* the line the for loop of line 139 is at
    current_section,  \* parse_transactions' current_section
    transactions,     \* parse_transactions' transactions
    summary,          \* parse_transactions' summary
    result,           \* what parse_statement_pdf returned or raised
    call,             \* a function of the module called on its own, and its argument
    value,            \* what that call returned or raised
    statements,       \* parse_statements.py: the statements main fetched (line 46)
    stmt_idx,         \* the statement the for loop of line 57 is at (0: none yet)
    db_status,        \* the status column of the statements table, by statement
    db_transactions,  \* the rows of the transactions table
    outcomes,         \* what each call of parse_statement_pdf was given and gave back
    db_category,      \* the category column of the transactions table, by row
    cat_pc,           \* categorize_transactions.py: where main is
    uncategorized,    \* the rows main fetched (line 163)
    cat_idx,          \* the row the for loop of line 174 is at (0: none yet)
    categorized,      \* what each call of categorize_with_ollama was given and gave back
    mailbox,          \* fetcher.py: the PDF attachments of the matching emails
    fetch_pc,         \* where fetch_and_upload_statements is
    fetch_runs,       \* the runs of fetch_and_upload_statements started so far
    att_idx,          \* the attachment the loops of lines 54 and 83 are at (0: none yet)
    storage,          \* the objects of the storage bucket: path and data
    db_statements,    \* the rows of the statements table: filename and storage path
    runs              \* parse_statements.py: the runs of main side by side, by run

\* the state of the script, which a run of parse_statement_pdf leaves alone
script == <<statements, stmt_idx, db_status, db_transactions, outcomes>>

\* the state of the fetcher, and the storage and table it writes to
fetcher == <<mailbox, fetch_pc, fetch_runs, att_idx, storage, db_statements>>

\* the state of the categorizer
categorizer == <<db_category, cat_pc, uncategorized, cat_idx, categorized>>

\* what the parser, the functions called on their own and the
\* statement-parsing script leave alone
rest == <<categorizer, fetcher, runs>>

\* what a run of parse_statement_pdf leaves alone
others == <<call, value, script, rest>>

\* the state of parse_statement_pdf
parser ==
    <<pdf_bytes, password, pc, ran, pages_text, page_idx, lines, line_idx,
      current_section, transactions, summary, result>>

vars ==
    <<pdf_bytes, password, pc, ran, pages_text, page_idx, lines, line_idx,
      current_section, transactions, summary, result, others>>

\* no function is called on its own
NoCall == [fn |-> "none"]

\* the script is not running
NoScript ==
    /\ statements = <<>>
    /\ stmt_idx = 0
    /\ db_status = <<>>
    /\ db_transactions = <<>>
    /\ outcomes = <<>>

\* the categorizer is not running
NoCategorizer ==
    /\ db_category = <<>>
    /\ cat_pc = "not_run"
    /\ uncategorized = <<>>
    /\ cat_idx = 0
    /\ categorized = <<>>

\* the fetcher is not running
NoFetcher ==
    /\ mailbox = <<>>
    /\ fetch_pc = "not_run"
    /\ fetch_runs = 0
    /\ att_idx = 0
    /\ storage = {}
    /\ db_statements = <<>>

\* nothing but the parser, the functions or the script runs
NoRest ==
    /\ NoCategorizer
    /\ NoFetcher
    /\ runs = <<>>

\* the call has not returned yet
Pending == [pending |-> TRUE]

Running == [status |-> "running"]

Raised(error, where) == [status |-> "raised", error |-> error, in |-> where]

Returned(txs, sm) == [status |-> "returned", transactions |-> txs, summary |-> sm]

Init ==
    /\ pdf_bytes \in PdfInputs
    /\ password \in Passwords
    /\ pc = "decrypt_pdf"
    /\ ran = {}
    /\ pages_text = <<>>
    /\ page_idx = 0
    /\ lines = <<>>
    /\ line_idx = 0
    /\ current_section = NoSection
    /\ transactions = <<>>
    /\ summary = StatementSummary
    /\ result = Running
    /\ call = NoCall
    /\ value = Pending
    /\ NoScript
    /\ NoRest

(***************************************************************************)
(* parse_statement_pdf (pdf_parser.py, lines 185-198)                      *)
(***************************************************************************)

\* pikepdf.open(input_buffer, password=password): the exception it raises,
\* or "opened"
pikepdf_open(pdf, pw) ==
    IF ~pdf.container_ok THEN "PdfError"
    ELSE IF pw /= UserPassword THEN "PasswordError"
    ELSE "opened"

\* decrypt_pdf catching the exception and handing the input on as it is
DecryptPdfSwallowingError ==
    /\ pc = "decrypt_pdf"
    /\ ran' = ran \cup {"decrypt_pdf"}
    /\ pc' = "extract_text_from_pdf"
    /\ UNCHANGED <<others, pdf_bytes, password, pages_text, page_idx, lines, line_idx,
                   current_section, transactions, summary, result>>

\* line 196, decrypt_pdf: an exception of pikepdf.open leaves
\* parse_statement_pdf at once
DecryptPdf ==
    /\ pc = "decrypt_pdf"
    /\ ran' = ran \cup {"decrypt_pdf"}
    /\ \E opened \in {pikepdf_open(pdf_bytes, password)} :
          IF opened = "opened"
          THEN /\ pc' = "extract_text_from_pdf"
               /\ result' = result
          ELSE /\ pc' = "raised"
               /\ result' = Raised(opened, "decrypt_pdf")
    /\ UNCHANGED <<others, pdf_bytes, password, pages_text, page_idx, lines, line_idx,
                   current_section, transactions, summary>>

\* line 72: page.extract_text() or ""
extract_text(page) == IF page.has_text THEN page.text ELSE ""

\* extract_text_from_pdf appending the text of a page only when there is some
extract_text_from_pdf_leaving_out_empty(pdf) ==
    SelectSeq([i \in 1..Len(pdf.pages) |-> extract_text(pdf.pages[i])],
              LAMBDA text : text /= "")

\* lines 67-75: one text per page, in page order
extract_text_from_pdf(pdf) == [i \in 1..Len(pdf.pages) |-> extract_text(pdf.pages[i])]

\* lines 70-72: the exception pdfplumber raises on opening the PDF or on
\* extracting the text of one of its pages, or "extracted"
pdfplumber_read(pdf) ==
    IF ~pdf.structure_ok THEN "PDFSyntaxError"
    ELSE IF pdf.bad_page /= 0 THEN "PDFTextExtractionError"
    ELSE "extracted"

\* extract_text_from_pdf with the page's exception caught and the page left out
ExtractTextSkippingBadPage ==
    /\ pc = "extract_text_from_pdf"
    /\ ran' = ran \cup {"extract_text_from_pdf"}
    /\ IF pdf_bytes.structure_ok
       THEN /\ pages_text' =
                  SubSeq(extract_text_from_pdf(pdf_bytes), 1, pdf_bytes.bad_page - 1)
                  \o SubSeq(extract_text_from_pdf(pdf_bytes), pdf_bytes.bad_page + 1,
                            Len(pdf_bytes.pages))
            /\ pc' = "parse_transactions"
            /\ result' = result
       ELSE /\ pages_text' = pages_text
            /\ pc' = "raised"
            /\ result' = Raised("PDFSyntaxError", "extract_text_from_pdf")
    /\ UNCHANGED <<others, pdf_bytes, password, page_idx, lines, line_idx,
                   current_section, transactions, summary>>

\* line 197, extract_text_from_pdf: an exception of pdfplumber leaves
\* parse_statement_pdf at once
ExtractText ==
    /\ pc = "extract_text_from_pdf"
    /\ ran' = ran \cup {"extract_text_from_pdf"}
    /\ \E read \in {pdfplumber_read(pdf_bytes)} :
          IF read = "extracted"
          THEN /\ pages_text' = extract_text_from_pdf(pdf_bytes)
               /\ pc' = "parse_transactions"
               /\ result' = result
          ELSE /\ pages_text' = pages_text
               /\ pc' = "raised"
               /\ result' = Raised(read, "extract_text_from_pdf")
    /\ UNCHANGED <<others, pdf_bytes, password, page_idx, lines, line_idx,
                   current_section, transactions, summary>>

\* ParseSummary with the transactions list living on from call to call
ParseSummaryKeepingTransactions ==
    /\ pc = "parse_transactions"
    /\ ran' = ran \cup {"parse_transactions"}
    /\ \E sm \in {parse_summary(pages_text)} :
          IF sm = ValueError
          THEN /\ pc' = "raised"
               /\ summary' = summary
               /\ page_idx' = page_idx
               /\ result' = Raised("ValueError", "parse_transactions")
          ELSE /\ pc' = "pages"
               /\ summary' = sm
               /\ page_idx' = 0
               /\ result' = result
    /\ UNCHANGED <<others, pdf_bytes, password, pages_text, lines, line_idx,
                   current_section, transactions>>

\* lines 106-132: parse_transactions up to the page loop, which starts at
\* the first page
ParseSummary ==
    /\ pc = "parse_transactions"
    /\ ran' = ran \cup {"parse_transactions"}
    /\ transactions' = <<>>
    /\ \E sm \in {parse_summary(pages_text)} :
          IF sm = ValueError
          THEN /\ pc' = "raised"
               /\ summary' = summary
               /\ page_idx' = page_idx
               /\ result' = Raised("ValueError", "parse_transactions")
          ELSE /\ pc' = "pages"
               /\ summary' = sm
               /\ page_idx' = 0
               /\ result' = result
    /\ UNCHANGED <<others, pdf_bytes, password, pages_text, lines, line_idx,
                   current_section>>

\* lines 132-134: the loop takes a page without the marker and continues
SkipPage ==
    /\ pc = "pages"
    /\ page_idx < Len(pages_text)
    /\ ~qualifies(pages_text[page_idx + 1])
    /\ page_idx' = page_idx + 1
    /\ UNCHANGED <<others, pdf_bytes, password, pc, ran, pages_text, lines, line_idx,
                   current_section, transactions, summary, result>>

\* StartPage with current_section set once before the page loop, not per page
StartPageKeepingSection ==
    /\ pc = "pages"
    /\ page_idx < Len(pages_text)
    /\ qualifies(pages_text[page_idx + 1])
    /\ page_idx' = page_idx + 1
    /\ lines' = SplitLines(pages_text[page_idx + 1])
    /\ line_idx' = 0
    /\ pc' = "lines"
    /\ UNCHANGED <<others, pdf_bytes, password, ran, pages_text, transactions, summary,
                   result, current_section>>

\* lines 132-137: the loop takes a page with the marker, splits it and
\* resets the section
StartPage ==
    /\ pc = "pages"
    /\ page_idx < Len(pages_text)
    /\ qualifies(pages_text[page_idx + 1])
    /\ page_idx' = page_idx + 1
    /\ lines' = SplitLines(pages_text[page_idx + 1])
    /\ line_idx' = 0
    /\ current_section' = NoSection
    /\ pc' = "lines"
    /\ UNCHANGED <<others, pdf_bytes, password, ran, pages_text, transactions, summary,
                   result>>

\* lines 139-180: one iteration of the line loop
ScanLine ==
    /\ pc = "lines"
    /\ line_idx < Len(lines)
    /\ \E r \in {loop_body(current_section, lines[line_idx + 1])} :
           /\ line_idx' = line_idx + 1
           /\ current_section' = r.section
           /\ transactions' = append(transactions, r.appended)
           /\ IF r.raised
              THEN /\ pc' = "raised"
                   /\ result' = Raised("ValueError", "parse_transactions")
              ELSE /\ pc' = pc
                   /\ result' = result
    /\ UNCHANGED <<others, pdf_bytes, password, ran, pages_text, page_idx, lines, summary>>

\* line 139: the line loop is exhausted, back to the page loop
EndPage ==
    /\ pc = "lines"
    /\ line_idx = Len(lines)
    /\ pc' = "pages"
    /\ UNCHANGED <<others, pdf_bytes, password, ran, pages_text, page_idx, lines, line_idx,
                   current_section, transactions, summary, result>>

\* lines 182 and 198: the page loop is exhausted, the pair is returned
Return ==
    /\ pc = "pages"
    /\ page_idx = Len(pages_text)
    /\ pc' = "done"
    /\ result' = Returned(transactions, summary)
    /\ UNCHANGED <<others, pdf_bytes, password, ran, pages_text, page_idx, lines, line_idx,
                   current_section, transactions, summary>>

Next ==
    \/ DecryptPdf
    \/ ExtractText
    \/ ParseSummary
    \/ SkipPage
    \/ StartPage
    \/ ScanLine
    \/ EndPage
    \/ Return

Spec == Init /\ [][Next]_vars

(***************************************************************************)
(* Filenames (fetcher.py, _sanitize_filename)                              *)
(***************************************************************************)

\* the class [<>:"/\\|?*] of line 202
IsInvalidChar(c) == c \in {"<", ">", ":", "\"", "/", "\\", "|", "?", "*"}

\* line 202: re.sub(r'[<>:"/\\|?*]', '_', filename)
\* (character by character, the text halved at each step)
RECURSIVE ReplaceInvalid(_)
ReplaceInvalid(s) ==
    IF s = "" THEN ""
    ELSE IF Len(s) = 1 THEN (IF IsInvalidChar(s) THEN "_" ELSE s)
    ELSE ReplaceInvalid(SubSeq(s, 1, Len(s) \div 2))
         \o ReplaceInvalid(SubSeq(s, Len(s) \div 2 + 1, Len(s)))

\* line 204: re.sub(r'_+', '_', sanitized)
\* two collapsed texts joined: a run that ends the first and begins the
\* second is one run
JoinCollapsed(left, right) ==
    IF Char(left, Len(left)) = "_" /\ Char(right, 1) = "_"
    THEN left \o SubSeq(right, 2, Len(right))
    ELSE left \o right

\* (the text halved at each step)
RECURSIVE CollapseUnderscores(_)
CollapseUnderscores(s) ==
    IF Len(s) < 2 THEN s
    ELSE JoinCollapsed(CollapseUnderscores(SubSeq(s, 1, Len(s) \div 2)),
                       CollapseUnderscores(SubSeq(s, Len(s) \div 2 + 1, Len(s))))

\* s[:n]
Prefix(s, n) == SubSeq(s, 1, IF Len(s) < n THEN Len(s) ELSE n)

\* line 208: name[:195] + ('.' + ext if ext else '')
NameAndExt(name, ext) == Prefix(name, 195) \o (IF ext /= "" THEN "." \o ext ELSE "")

\* lines 207-208: rsplit('.', 1) at the last of the dots, when there is one
SplitAtLastDot(s, dots) ==
    IF dots = {} THEN NameAndExt(s, "")
    ELSE NameAndExt(SubSeq(s, 1, Greatest(dots) - 1),
                    SubSeq(s, Greatest(dots) + 1, Len(s)))

\* lines 206-208: a name of more than 200 characters is cut
LimitLength(s) ==
    IF Len(s) > 200 THEN SplitAtLastDot(s, {i \in 1..Len(s) : Char(s, i) = "."})
    ELSE s

\* lines 191-209
_sanitize_filename(filename) ==
    LimitLength(CollapseUnderscores(ReplaceInvalid(filename)))

\* s repeated n times
RECURSIVE Repeat(_, _)
Repeat(s, n) ==
    IF n = 0 THEN ""
    ELSE IF n = 1 THEN s
    ELSE Repeat(s, n \div 2) \o Repeat(s, n - n \div 2)

\* attachment names with the date prefix of line 85: short ones with and
\* without characters to replace, and names of more than 200 characters
\* with no extension, a short one, a long one, several dots, a final dot
ShortFileNames ==
    {"2024-03-01_statement.pdf", "2024-03-01_a<b>c:d.pdf", "2024-03-01_a__b___c.pdf",
     "2024-03-01_a:/b\\c|d?e*f\"g.pdf", "2024-03-01_:_:_.pdf", "2024-03-01_",
     "2024-03-01_..", "2024-03-01_Zolve Statement (March).PDF"}

LongFileNames ==
    {"2024-03-01_" \o Repeat("a", 190),
     "2024-03-01_" \o Repeat("a", 240),
     "2024-03-01_" \o Repeat("a", 186) \o ".pdf",
     "2024-03-01_" \o Repeat("a", 240) \o ".pdf",
     "2024-03-01_" \o Repeat("a", 240) \o ".",
     "2024-03-01_" \o Repeat("a", 185) \o ".statement",
     "2024-03-01_" \o Repeat("a", 240) \o ".statement",
     "2024-03-01_" \o Repeat("a.b", 70) \o ".pdf",
     "2024-03-01_" \o Repeat("a_", 120) \o ".pdf",
     "2024-03-01_" \o Repeat("a:/", 90) \o ".pdf",
     "2024-03-01_" \o Repeat("_", 250),
     "2024-03-01_" \o Repeat("?", 250) \o ".pdf",
     "2024-03-01_x." \o Repeat("a", 240),
     "2024-03-01_" \o Repeat("a", 183) \o Repeat("_", 20) \o ".pdf"}

FileNames == ShortFileNames \cup LongFileNames

(***************************************************************************)
(* The functions of pdf_parser.py called on their own                      *)
(***************************************************************************)

\* amount texts: a number of the statement, bare or wrapped in a currency
\* symbol and parentheses, with or without blanks around it
AmountDigits ==
    {"0.00", "5", "123.45", "1,234.56", "1,000,000", ".5", "12.", "007.10"}

AmountWraps ==
    {<<"", "">>, <<"$", "">>, <<"(", ")">>, <<"($", ")">>, <<"$(", ")">>}

\* texts that are no amount
NoAmounts ==
    {"1.2.3", ".", "", "-5.00", "(5.00", "5.00)", "()", "( 5 )", "(-5)", "$", "1 000"}

AmountStrings ==
    {pad \o w[1] \o d \o w[2] \o pad :
        pad \in {"", " "}, w \in AmountWraps, d \in AmountDigits}
    \cup NoAmounts

FunctionCalls ==
    {[fn |-> "parse_amount", arg |-> a] : a \in AmountStrings}
    \cup {[fn |-> "_sanitize_filename", arg |-> f] : f \in FileNames}

\* no statement is being parsed
NoPdf == [container_ok |-> FALSE, structure_ok |-> FALSE, bad_page |-> 0, pages |-> <<>>]

InitFunctions ==
    /\ call \in FunctionCalls
    /\ value = Pending
    /\ pdf_bytes = NoPdf
    /\ password = ""
    /\ pc = "not_called"
    /\ ran = {}
    /\ pages_text = <<>>
    /\ page_idx = 0
    /\ lines = <<>>
    /\ line_idx = 0
    /\ current_section = NoSection
    /\ transactions = <<>>
    /\ summary = StatementSummary
    /\ result = Running
    /\ NoScript
    /\ NoRest

\* lines 86-93: parse_amount(amount_str) returns or raises
CallParseAmount ==
    /\ call.fn = "parse_amount"
    /\ value = Pending
    /\ value' = parse_amount(call.arg)
    /\ UNCHANGED <<rest, call, script, pdf_bytes, password, pc, ran, pages_text, page_idx,
                   lines, line_idx, current_section, transactions, summary, result>>

\* fetcher.py, lines 191-209: _sanitize_filename(filename) returns
CallSanitizeFilename ==
    /\ call.fn = "_sanitize_filename"
    /\ value = Pending
    /\ value' = [returned |-> _sanitize_filename(call.arg)]
    /\ UNCHANGED <<rest, call, script, pdf_bytes, password, pc, ran, pages_text, page_idx,
                   lines, line_idx, current_section, transactions, summary, result>>

NextFunctions ==
    \/ CallParseAmount
    \/ CallSanitizeFilename

SpecFunctions == InitFunctions /\ [][NextFunctions]_vars

(***************************************************************************)
(* The statement-parsing script (parse_statements.py, main)                *)
(*                                                                         *)
(* One run of main over the statements it fetched.  A statement is named   *)
(* by its place in the fetched list.  The calls of the storage and of the  *)
(* database are taken to succeed; parse_statement_pdf runs as above, once  *)
(* per statement, in the one Python process of the run.                    *)
(***************************************************************************)

\* the greatest number of statements a run fetches
MaxStatements == 3

\* a page whose only row has an amount text that is not a number
OddAmountBody ==
    "Purchases and Cash Advances\n04/13/2024 04/12/2024 ODD AMOUNT 1.2.3"

\* the PDF whose pages have the given texts
StatementPdf(texts) ==
    [container_ok |-> TRUE, structure_ok |-> TRUE, bad_page |-> 0,
     pages |-> [i \in 1..Len(texts) |-> [has_text |-> TRUE, text |-> texts[i]]]]

\* the PDFs in the storage: a statement with activity, one whose activity
\* page has no row in a credit or debit section, one without an activity
\* page, and one whose only row cannot be decoded
StoredPdfs ==
    {StatementPdf(<<SummaryBody, Marker \o "\n" \o ActivityBody>>),
     StatementPdf(<<Marker \o "\n" \o ContinuationBody>>),
     StatementPdf(<<SummaryBody>>),
     StatementPdf(<<Marker \o "\n" \o OddAmountBody>>)}

\* the records of the statements table: with a storage path, or without one
StatementRecords ==
    [storage_path : {"zolve/statement.pdf"}, pdf : StoredPdfs]
    \cup {[storage_path |-> "", pdf |-> NoPdf]}

\* the lists of at most n statement records
RECURSIVE StatementLists(_)
StatementLists(n) ==
    IF n = 0 THEN {<<>>}
    ELSE LET shorter == StatementLists(n - 1)
         IN  shorter \cup {Append(l, r) : l \in {q \in shorter : Len(q) = n - 1},
                                          r \in StatementRecords}

\* lines 28 and 46: PDF_PASSWORD is read once, the 'not_parsed' statements
\* are fetched
InitScript ==
    /\ statements \in StatementLists(MaxStatements)
    /\ stmt_idx = 0
    /\ db_status = [i \in 1..Len(statements) |-> "not_parsed"]
    /\ db_transactions = <<>>
    /\ outcomes = <<>>
    /\ password \in Passwords
    /\ pdf_bytes = NoPdf
    /\ pc = "next_statement"
    /\ ran = {}
    /\ pages_text = <<>>
    /\ page_idx = 0
    /\ lines = <<>>
    /\ line_idx = 0
    /\ current_section = NoSection
    /\ transactions = <<>>
    /\ summary = StatementSummary
    /\ result = Running
    /\ call = NoCall
    /\ value = Pending
    /\ NoRest

\* lines 101-119: update_status(client, statement_id, status)
update_status(table, statement_id, status) == [table EXCEPT ![statement_id] = status]

\* lines 137-149: download_pdf(client, storage_path), the bytes stored for
\* the statement
download_pdf(stmt) == stmt.pdf

\* one decimal digit as text
DigitText(n) == SubSeq("0123456789", n + 1, n + 1)

\* datetime.isoformat() of the midnight strptime gives: YYYY-MM-DDT00:00:00
isoformat(d) ==
    DigitText(d.year \div 1000) \o DigitText((d.year \div 100) % 10)
    \o DigitText((d.year \div 10) % 10) \o DigitText(d.year % 10) \o "-"
    \o DigitText(d.month \div 10) \o DigitText(d.month % 10) \o "-"
    \o DigitText(d.day \div 10) \o DigitText(d.day % 10) \o "T00:00:00"

\* lines 82-91: the dictionaries made of the Transactions
tx_dicts(txs) ==
    [i \in 1..Len(txs) |->
        [posted_date      |-> isoformat(txs[i].posted_date),
         transaction_date |-> isoformat(txs[i].transaction_date),
         description      |-> txs[i].description,
         amount           |-> txs[i].amount,
         transaction_type |-> txs[i].transaction_type]]

\* supabase_client.py, lines 201-211: the records of one statement
records_of(statement_id, dicts) ==
    [i \in 1..Len(dicts) |->
        [statement_id     |-> statement_id,
         posted_date      |-> dicts[i].posted_date,
         transaction_date |-> dicts[i].transaction_date,
         description      |-> dicts[i].description,
         amount           |-> dicts[i].amount,
         transaction_type |-> dicts[i].transaction_type]]

\* supabase_client.py, lines 189-217: insert_transactions_batch
insert_transactions_batch(table, statement_id, dicts) ==
    table \o records_of(statement_id, dicts)

\* lines 57-66: a statement without a storage path is passed over
SkipStatement ==
    /\ pc = "next_statement"
    /\ stmt_idx < Len(statements)
    /\ statements[stmt_idx + 1].storage_path = ""
    /\ stmt_idx' = stmt_idx + 1
    /\ UNCHANGED <<rest, call, value, statements, db_status, db_transactions, outcomes,
                   pdf_bytes, password, pc, ran, pages_text, page_idx, lines, line_idx,
                   current_section, transactions, summary, result>>

\* lines 57-78: the statement is marked 'parsing', its PDF is downloaded
\* and parse_statement_pdf is called on it
BeginStatement ==
    /\ pc = "next_statement"
    /\ stmt_idx < Len(statements)
    /\ statements[stmt_idx + 1].storage_path /= ""
    /\ stmt_idx' = stmt_idx + 1
    /\ db_status' = update_status(db_status, stmt_idx + 1, "parsing")
    /\ pdf_bytes' = download_pdf(statements[stmt_idx + 1])
    /\ pc' = "decrypt_pdf"
    /\ ran' = {}
    /\ result' = Running
    /\ UNCHANGED <<rest, call, value, statements, db_transactions, outcomes, password,
                   pages_text, page_idx, lines, line_idx, current_section, transactions,
                   summary>>

\* lines 78-109: parse_statement_pdf has returned, the transactions found
\* are inserted and the statement is marked 'parsed'; or it has raised, and
\* the statement is marked 'error'
EndStatement ==
    /\ pc \in {"done", "raised"}
    /\ stmt_idx >= 1
    /\ outcomes' = Append(outcomes, [pdf_bytes |-> pdf_bytes, password |-> password,
                                     result |-> result])
    /\ IF result.status = "returned"
       THEN /\ db_transactions' =
                  IF result.transactions /= <<>>
                  THEN insert_transactions_batch(db_transactions, stmt_idx,
                                                 tx_dicts(result.transactions))
                  ELSE db_transactions
            /\ db_status' = update_status(db_status, stmt_idx, "parsed")
       ELSE /\ db_transactions' = db_transactions
            /\ db_status' = update_status(db_status, stmt_idx, "error")
    /\ pc' = "next_statement"
    /\ UNCHANGED <<rest, call, value, statements, stmt_idx, pdf_bytes, password, ran,
                   pages_text, page_idx, lines, line_idx, current_section, transactions,
                   summary, result>>

\* lines 48-50 and 111-127: no statement is left, main returns 0
ExitScript ==
    /\ pc = "next_statement"
    /\ stmt_idx = Len(statements)
    /\ pc' = "exit"
    /\ UNCHANGED <<rest, call, value, script, pdf_bytes, password, ran, pages_text, page_idx,
                   lines, line_idx, current_section, transactions, summary, result>>

NextScript ==
    \/ SkipStatement
    \/ BeginStatement
    \/ DecryptPdf
    \/ ExtractText
    \/ ParseSummary
    \/ SkipPage
    \/ StartPage
    \/ ScanLine
    \/ EndPage
    \/ Return
    \/ EndStatement
    \/ ExitScript

SpecScript == InitScript /\ [][NextScript]_vars

(***************************************************************************)
(* The categorizer (categorize_transactions.py)                            *)
(*                                                                         *)
(* A category of the database is None (NULL) or Str(name).  What Ollama    *)
(* answers to a description is the environment's choice.                   *)
(***************************************************************************)

\* the greatest number of rows of the transactions table
MaxTransactions == 2

\* a Python str, where the value may also be None
Str(s) == [str |-> s]

\* lines 30-42
VALID_CATEGORIES ==
    <<"Shopping", "Food & Dining", "Transportation", "Subscriptions", "Utilities",
      "Housing", "Entertainment", "Travel", "Healthcare", "Income", "Other">>

UpperLetters == "ABCDEFGHIJKLMNOPQRSTUVWXYZ"

LowerLetters == "abcdefghijklmnopqrstuvwxyz"

\* str.lower() of one ASCII character
LowerChar(c) ==
    IF \E i \in 1..26 : Char(UpperLetters, i) = c
    THEN Char(LowerLetters, CHOOSE i \in 1..26 : Char(UpperLetters, i) = c)
    ELSE c

\* str.lower()
RECURSIVE Lower(_)
Lower(s) == IF s = "" THEN "" ELSE LowerChar(Char(s, 1)) \o Lower(SubSeq(s, 2, Len(s)))

\* first_valid handing the reply on when it names no category
RECURSIVE first_valid_or_reply(_, _)
first_valid_or_reply(category, i) ==
    IF i > Len(VALID_CATEGORIES) THEN category
    ELSE IF Contains(Lower(category), Lower(VALID_CATEGORIES[i])) THEN VALID_CATEGORIES[i]
    ELSE first_valid_or_reply(category, i + 1)

\* lines 93-98: the loop over VALID_CATEGORIES from place i on, and the
\* fallback
RECURSIVE first_valid(_, _)
first_valid(category, i) ==
    IF i > Len(VALID_CATEGORIES) THEN "Other"
    ELSE IF Contains(Lower(category), Lower(VALID_CATEGORIES[i])) THEN VALID_CATEGORIES[i]
    ELSE first_valid(category, i + 1)

\* what requests.post and response.json() give: an exception of the
\* request, or a status code and a body that is no JSON, a JSON object
\* without "response", one whose "response" is null, or one with a text
Reply(error, status_code, json, response) ==
    [error |-> error, status_code |-> status_code, json |-> json, response |-> response]

ReplyTexts ==
    {"Shopping", " shopping\n", "FOOD & DINING", "Category: Travel.",
     "Food & Dining or Shopping", "Groceries", "", "another one",
     "Healthcare/Income", "transportation, then travel", "NULL"}

Replies ==
    {Reply("ConnectionError", 0, "none", ""), Reply("Timeout", 0, "none", ""),
     Reply("none", 500, "object", "Shopping"), Reply("none", 404, "invalid", ""),
     Reply("none", 200, "invalid", ""), Reply("none", 200, "no_response", ""),
     Reply("none", 200, "null_response", "")}
    \cup {Reply("none", 200, "object", t) : t \in ReplyTexts}

\* lines 89-90: result.get("response", "")
response_of(reply) == IF reply.json = "no_response" THEN "" ELSE reply.response

\* lines 60-105: categorize_with_ollama(description), Ollama answering reply;
\* every exception (of the request, of response.json(), of .strip() on a
\* null) is caught and gives None
categorize_with_ollama(description, reply) ==
    IF reply.error /= "none" THEN None
    ELSE IF reply.status_code /= 200 THEN None
    ELSE IF reply.json \in {"invalid", "null_response"} THEN None
    ELSE Str(first_valid(Strip(response_of(reply)), 1))

\* the rows of the transactions table: what the statement-parsing script
\* inserted for a statement
TransactionRows ==
    {[statement_id |-> 1, posted_date |-> "2024-04-02T00:00:00",
      transaction_date |-> "2024-04-01T00:00:00", description |-> "AMAZON MKTPLACE",
      amount |-> [num |-> 4567, exp |-> 2], transaction_type |-> "debit"]}

\* the tables of at most n rows
RECURSIVE TransactionTables(_)
TransactionTables(n) ==
    IF n = 0 THEN {<<>>}
    ELSE LET shorter == TransactionTables(n - 1)
         IN  shorter \cup {Append(t, r) : t \in {q \in shorter : Len(q) = n - 1},
                                          r \in TransactionRows}

\* the transactions table before the run: a row has no category, or the
\* one an earlier run gave it
InitCategorizer ==
    /\ db_transactions \in TransactionTables(MaxTransactions)
    /\ db_category \in [1..Len(db_transactions) -> {None, Str("Shopping")}]
    /\ cat_pc = "start"
    /\ uncategorized = <<>>
    /\ cat_idx = 0
    /\ categorized = <<>>
    /\ NoFetcher
    /\ runs = <<>>
    /\ statements = <<>>
    /\ stmt_idx = 0
    /\ db_status = <<>>
    /\ outcomes = <<>>
    /\ call = NoCall
    /\ value = Pending
    /\ pdf_bytes = NoPdf
    /\ password = ""
    /\ pc = "not_called"
    /\ ran = {}
    /\ pages_text = <<>>
    /\ page_idx = 0
    /\ lines = <<>>
    /\ line_idx = 0
    /\ current_section = NoSection
    /\ transactions = <<>>
    /\ summary = StatementSummary
    /\ result = Running

\* lines 108-116: the rows whose category is NULL, in table order
RECURSIVE get_uncategorized_transactions(_, _)
get_uncategorized_transactions(column, i) ==
    IF i > Len(column) THEN <<>>
    ELSE (IF column[i] = None THEN <<i>> ELSE <<>>)
         \o get_uncategorized_transactions(column, i + 1)

\* lines 136-169: Ollama and Supabase are reached or main returns 1; the
\* rows without a category are fetched
StartCategorizer ==
    /\ cat_pc = "start"
    /\ \E ollama_ok, supabase_ok \in BOOLEAN :
          IF ollama_ok /\ supabase_ok
          THEN /\ uncategorized' = get_uncategorized_transactions(db_category, 1)
               /\ cat_pc' = "transactions"
          ELSE /\ uncategorized' = uncategorized
               /\ cat_pc' = "exit"
    /\ UNCHANGED <<parser, call, value, script, fetcher, runs, db_category, cat_idx,
                   categorized>>

\* lines 119-126: the update of one row, which may fail: the exception is
\* caught and the row stays as it is
update_transaction_category(column, transaction_id, category, db_ok) ==
    IF db_ok THEN [column EXCEPT ![transaction_id] = category] ELSE column

\* line 185: "if category:"
Truthy(category) == category /= None /\ category.str /= ""

\* lines 174-190: one iteration of the loop: Ollama is asked, and the row
\* is updated when a category came back
CategorizeTransaction ==
    /\ cat_pc = "transactions"
    /\ cat_idx < Len(uncategorized)
    /\ cat_idx' = cat_idx + 1
    /\ \E reply \in Replies, db_ok \in BOOLEAN :
         \E category \in {categorize_with_ollama(
                              db_transactions[uncategorized[cat_idx + 1]].description,
                              reply)} :
            /\ categorized' = Append(categorized,
                                     [tx |-> uncategorized[cat_idx + 1], reply |-> reply,
                                      category |-> category])
            /\ db_category' =
                  IF Truthy(category)
                  THEN update_transaction_category(db_category,
                                                   uncategorized[cat_idx + 1],
                                                   category, db_ok)
                  ELSE db_category
    /\ UNCHANGED <<parser, call, value, script, fetcher, runs, cat_pc, uncategorized>>

\* lines 165-167 and 192-198: no row is left, main returns 0
ExitCategorizer ==
    /\ cat_pc = "transactions"
    /\ cat_idx = Len(uncategorized)
    /\ cat_pc' = "exit"
    /\ UNCHANGED <<parser, call, value, script, fetcher, runs, db_category, uncategorized,
                   cat_idx, categorized>>

NextCategorizer ==
    \/ StartCategorizer
    \/ CategorizeTransaction
    \/ ExitCategorizer

SpecCategorizer == InitCategorizer /\ [][NextCategorizer]_vars

(***************************************************************************)
(* The fetcher in Supabase mode (fetcher.py, fetch_and_upload_statements   *)
(* with use_supabase = True)                                               *)
(*                                                                         *)
(* Runs follow one another over one mailbox.  The attachments of the       *)
(* matching emails are taken in the order the two loops reach them, each   *)
(* with the date prefix of its email.  A call of the storage or of the     *)
(* database succeeds or raises; one that raises has changed nothing.       *)
(***************************************************************************)

\* the greatest number of attachments in the mailbox
MaxAttachments == 2

\* the greatest number of runs of the fetcher
MaxFetchRuns == 2

\* attachments: two files of one name on one day, a name that sanitizes to
\* theirs, and the same name a month later
Attachments ==
    {[date_prefix |-> "2024-03-01", attachment_name |-> "statement.pdf",
      attachment_data |-> "march"],
     [date_prefix |-> "2024-03-01", attachment_name |-> "statement.pdf",
      attachment_data |-> "march, sent again"],
     [date_prefix |-> "2024-03-01", attachment_name |-> "_statement.pdf",
      attachment_data |-> "march, renamed"],
     [date_prefix |-> "2024-04-01", attachment_name |-> "statement.pdf",
      attachment_data |-> "april"]}

\* the mailboxes of at most n attachments
RECURSIVE Mailboxes(_)
Mailboxes(n) ==
    IF n = 0 THEN {<<>>}
    ELSE LET shorter == Mailboxes(n - 1)
         IN  shorter \cup {Append(m, a) : m \in {q \in shorter : Len(q) = n - 1},
                                          a \in Attachments}

\* nothing is stored and no statement is recorded before the first run
InitFetcher ==
    /\ mailbox \in Mailboxes(MaxAttachments)
    /\ fetch_pc = "start"
    /\ fetch_runs = 0
    /\ att_idx = 0
    /\ storage = {}
    /\ db_statements = <<>>
    /\ db_status = <<>>
    /\ NoCategorizer
    /\ runs = <<>>
    /\ statements = <<>>
    /\ stmt_idx = 0
    /\ db_transactions = <<>>
    /\ outcomes = <<>>
    /\ call = NoCall
    /\ value = Pending
    /\ pdf_bytes = NoPdf
    /\ password = ""
    /\ pc = "not_called"
    /\ ran = {}
    /\ pages_text = <<>>
    /\ page_idx = 0
    /\ lines = <<>>
    /\ line_idx = 0
    /\ current_section = NoSection
    /\ transactions = <<>>
    /\ summary = StatementSummary
    /\ result = Running

\* line 85: the name the attachment is stored under
safe_name(attachment) ==
    _sanitize_filename(attachment.date_prefix \o "_" \o attachment.attachment_name)

\* supabase_client.py, lines 122-134: a row of the table has the filename
check_file_exists(table, filename) ==
    \E i \in 1..Len(table) : table[i].filename = filename

\* supabase_client.py, line 43
storage_path_of(filename) == "zolve/" \o filename

\* supabase_client.py, lines 46-50: the object is in the bucket under the
\* path, in the place of any object that was there
upload_pdf(bucket, filename, data) ==
    {object \in bucket : object.path /= storage_path_of(filename)}
    \cup {[path |-> storage_path_of(filename), data |-> data]}

\* supabase_client.py, lines 73-82: the record inserted
create_statement_record(table, filename, storage_path) ==
    Append(table, [filename |-> filename, storage_path |-> storage_path])

\* lines 30-51: a run starts: Supabase is reached and the emails are
\* listed, or the run ends in the exception
StartFetch ==
    /\ fetch_pc = "start"
    /\ fetch_runs < MaxFetchRuns
    /\ fetch_runs' = fetch_runs + 1
    /\ att_idx' = 0
    /\ \E connected \in BOOLEAN :
          fetch_pc' = IF connected THEN "attachments" ELSE "start"
    /\ UNCHANGED <<parser, call, value, script, categorizer, runs, mailbox, storage,
                   db_statements>>

\* SkipAttachment uploading and recording the attachment all the same
SkipAttachmentNever ==
    /\ fetch_pc = "attachments"
    /\ att_idx < Len(mailbox)
    /\ check_file_exists(db_statements, safe_name(mailbox[att_idx + 1]))
    /\ att_idx' = att_idx + 1
    /\ storage' = upload_pdf(storage, safe_name(mailbox[att_idx + 1]),
                             mailbox[att_idx + 1].attachment_data)
    /\ db_statements' =
          create_statement_record(db_statements, safe_name(mailbox[att_idx + 1]),
                                  storage_path_of(safe_name(mailbox[att_idx + 1])))
    /\ db_status' = Append(db_status, "not_parsed")
    /\ UNCHANGED <<parser, call, value, categorizer, runs, statements, stmt_idx,
                   db_transactions, outcomes, mailbox, fetch_pc, fetch_runs>>

\* lines 83-91: the filename has a record, the attachment is skipped
SkipAttachment ==
    /\ fetch_pc = "attachments"
    /\ att_idx < Len(mailbox)
    /\ check_file_exists(db_statements, safe_name(mailbox[att_idx + 1]))
    /\ att_idx' = att_idx + 1
    /\ UNCHANGED <<parser, call, value, script, categorizer, runs, mailbox, fetch_pc,
                   fetch_runs, storage, db_statements>>

\* lines 83-109: the filename has no record: the attachment is uploaded and
\* then recorded with status 'not_parsed'; when the upload raises nothing is
\* recorded, and when the insert raises the upload stays; either exception
\* is caught and the loop goes on
UploadAttachment ==
    /\ fetch_pc = "attachments"
    /\ att_idx < Len(mailbox)
    /\ att_idx' = att_idx + 1
    /\ \E name \in {safe_name(mailbox[att_idx + 1])} :
          /\ ~check_file_exists(db_statements, name)
          /\ \E uploaded, recorded \in BOOLEAN :
                /\ storage' =
                      IF uploaded
                      THEN upload_pdf(storage, name, mailbox[att_idx + 1].attachment_data)
                      ELSE storage
                /\ db_statements' =
                      IF uploaded /\ recorded
                      THEN create_statement_record(db_statements, name,
                                                   storage_path_of(name))
                      ELSE db_statements
                /\ db_status' =
                      IF uploaded /\ recorded
                      THEN Append(db_status, "not_parsed")
                      ELSE db_status
    /\ UNCHANGED <<parser, call, value, categorizer, runs, statements, stmt_idx,
                   db_transactions, outcomes, mailbox, fetch_pc, fetch_runs>>

\* lines 58-62 and 89: fetching an email or looking the filename up raises,
\* outside any try: the run ends there
AbortFetch ==
    /\ fetch_pc = "attachments"
    /\ att_idx < Len(mailbox)
    /\ fetch_pc' = "start"
    /\ UNCHANGED <<parser, call, value, script, categorizer, runs, mailbox, fetch_runs,
                   att_idx, storage, db_statements>>

\* lines 47-49 and 128: no attachment is left, the run returns
EndFetch ==
    /\ fetch_pc = "attachments"
    /\ att_idx = Len(mailbox)
    /\ fetch_pc' = "start"
    /\ UNCHANGED <<parser, call, value, script, categorizer, runs, mailbox, fetch_runs,
                   att_idx, storage, db_statements>>

NextFetcher ==
    \/ StartFetch
    \/ SkipAttachment
    \/ UploadAttachment
    \/ AbortFetch
    \/ EndFetch

SpecFetcher == InitFetcher /\ [][NextFetcher]_vars

(***************************************************************************)
(* Runs of the statement-parsing script side by side (parse_statements.py, *)
(* main)                                                                   *)
(*                                                                         *)
(* Each run is a process of its own against the one database and storage.  *)
(* Every call of the database or of the storage is one step; it succeeds   *)
(* or raises, and one that raises has changed nothing.  A statement is     *)
(* named by its place in the statements table.  parse_statement_pdf has no *)
(* effect outside its process and is one step, computed by the operators   *)
(* of the parser.                                                          *)
(***************************************************************************)

\* the greatest number of runs side by side
MaxRuns == 2

\* the greatest number of rows of the statements table
MaxStored == 2

\* lines 139-180 from line i of a page on
RECURSIVE scan_lines(_, _, _, _)

\* lines 139-180: what the iteration on line i gave
scan_line(page_lines, i, txs, r) ==
    IF r.raised THEN [raised |-> TRUE, transactions |-> txs]
    ELSE scan_lines(page_lines, i + 1, r.section, append(txs, r.appended))

scan_lines(page_lines, i, section, txs) ==
    IF i > Len(page_lines) THEN [raised |-> FALSE, transactions |-> txs]
    ELSE scan_line(page_lines, i, txs, loop_body(section, page_lines[i]))

\* lines 132-180 from page i on
RECURSIVE scan_pages(_, _, _)

\* lines 132-180: what the lines of page i gave
scan_page(pages, i, r) ==
    IF r.raised THEN r ELSE scan_pages(pages, i + 1, r.transactions)

scan_pages(pages, i, txs) ==
    IF i > Len(pages) THEN [raised |-> FALSE, transactions |-> txs]
    ELSE IF ~qualifies(pages[i]) THEN scan_pages(pages, i + 1, txs)
    ELSE scan_page(pages, i, scan_lines(SplitLines(pages[i]), 1, NoSection, txs))

\* lines 106-182: the pair returned, or the ValueError of the summary or of
\* a line
transactions_and_summary(sm, scanned) ==
    IF sm = ValueError \/ scanned.raised THEN Raised("ValueError", "parse_transactions")
    ELSE Returned(scanned.transactions, sm)

\* lines 96-182
parse_transactions(pages) ==
    transactions_and_summary(parse_summary(pages), scan_pages(pages, 1, <<>>))

\* lines 185-198: parse_statement_pdf(pdf_bytes, password) as one function
parse_statement_pdf(pdf, pw) ==
    IF pikepdf_open(pdf, pw) /= "opened"
    THEN Raised(pikepdf_open(pdf, pw), "decrypt_pdf")
    ELSE IF pdfplumber_read(pdf) /= "extracted"
    THEN Raised(pdfplumber_read(pdf), "extract_text_from_pdf")
    ELSE parse_transactions(extract_text_from_pdf(pdf))

\* the rows of the statements table and the objects they point at: a
\* statement with two transactions, one whose parse raises, one without a
\* storage path
StoredStatements ==
    {[filename |-> "2024-03-01_statement.pdf",
      storage_path |-> "zolve/2024-03-01_statement.pdf"],
     [filename |-> "2024-04-01_statement.pdf",
      storage_path |-> "zolve/2024-04-01_statement.pdf"],
     [filename |-> "2024-05-01_statement.pdf", storage_path |-> ""]}

StoredObjects ==
    {[path |-> "zolve/2024-03-01_statement.pdf",
      data |-> StatementPdf(<<SummaryBody, Marker \o "\n" \o ActivityBody>>)],
     [path |-> "zolve/2024-04-01_statement.pdf",
      data |-> StatementPdf(<<Marker \o "\n" \o OddAmountBody>>)]}

\* the tables of at most n rows, no statement twice
RECURSIVE StatementTables(_)
StatementTables(n) ==
    IF n = 0 THEN {<<>>}
    ELSE LET shorter == StatementTables(n - 1)
         IN  shorter \cup {Append(t, r) : t \in {q \in shorter : Len(q) = n - 1},
                                          r \in StoredStatements}

\* a run that has not started
NewRun ==
    [pc |-> "start", statements |-> <<>>, seen |-> <<>>, idx |-> 0, marked |-> <<>>,
     pdf_bytes |-> NoPdf, outcome |-> Running, inserted |-> {}, failed |-> FALSE,
     returned |-> 0]

\* the database and the storage as the fetcher and earlier runs left them
InitRuns ==
    /\ db_statements \in StatementTables(MaxStored)
    /\ db_status \in [1..Len(db_statements) -> {"not_parsed", "parsed"}]
    /\ storage = StoredObjects
    /\ db_transactions = <<>>
    /\ password \in Passwords
    /\ runs = [r \in 1..MaxRuns |-> NewRun]
    /\ NoCategorizer
    /\ mailbox = <<>>
    /\ fetch_pc = "not_run"
    /\ fetch_runs = 0
    /\ att_idx = 0
    /\ statements = <<>>
    /\ stmt_idx = 0
    /\ outcomes = <<>>
    /\ call = NoCall
    /\ value = Pending
    /\ pdf_bytes = NoPdf
    /\ pc = "not_called"
    /\ ran = {}
    /\ pages_text = <<>>
    /\ page_idx = 0
    /\ lines = <<>>
    /\ line_idx = 0
    /\ current_section = NoSection
    /\ transactions = <<>>
    /\ summary = StatementSummary
    /\ result = Running

\* what a step of a run leaves alone
outside_runs ==
    <<call, value, statements, stmt_idx, outcomes, categorizer, mailbox, fetch_pc,
      fetch_runs, att_idx, db_statements, pdf_bytes, pc, ran, pages_text, page_idx,
      lines, line_idx, current_section, transactions, summary, result, password>>

\* supabase_client.py, lines 86-98: the statements with the status, in
\* table order, from row i on
RECURSIVE get_statements_by_status(_, _, _)
get_statements_by_status(column, status, i) ==
    IF i > Len(column) THEN <<>>
    ELSE (IF column[i] = status THEN <<i>> ELSE <<>>)
         \o get_statements_by_status(column, status, i + 1)

\* the statement run r is at
stmt_id(r) == runs[r].statements[runs[r].idx]

\* lines 38-50: the run connects and fetches the 'not_parsed' statements;
\* an exception of either call ends the run (lines 118-125)
RunFetch(r) ==
    /\ runs[r].pc = "start"
    /\ \E fetched \in BOOLEAN :
          runs' = [runs EXCEPT ![r] =
                      IF fetched
                      THEN [@ EXCEPT !.pc = "statements",
                                     !.statements =
                                         get_statements_by_status(db_status, "not_parsed", 1),
                                     !.seen = db_status]
                      ELSE [@ EXCEPT !.pc = "exit", !.returned = 1]]
    /\ UNCHANGED <<outside_runs, db_status, db_transactions, storage>>

\* lines 57-66: the next statement has no storage path and is passed over
RunSkipStatement(r) ==
    /\ runs[r].pc = "statements"
    /\ runs[r].idx < Len(runs[r].statements)
    /\ db_statements[runs[r].statements[runs[r].idx + 1]].storage_path = ""
    /\ runs' = [runs EXCEPT ![r].idx = @ + 1, ![r].marked = <<>>,
                            ![r].pdf_bytes = NoPdf,
                            ![r].outcome = Running, ![r].failed = FALSE]
    /\ UNCHANGED <<outside_runs, db_status, db_transactions, storage>>

\* RunMarkParsing going on to the download without the update
RunDownloadUnmarked(r) ==
    /\ runs[r].pc = "statements"
    /\ runs[r].idx < Len(runs[r].statements)
    /\ db_statements[runs[r].statements[runs[r].idx + 1]].storage_path /= ""
    /\ runs' = [runs EXCEPT ![r].idx = @ + 1, ![r].marked = <<>>,
                            ![r].pdf_bytes = NoPdf,
                            ![r].outcome = Running, ![r].failed = FALSE,
                            ![r].pc = "download_pdf"]
    /\ UNCHANGED <<outside_runs, db_status, db_transactions, storage>>

\* lines 57-70: the next statement is taken and update_status(client,
\* stmt_id, "parsing") is called; when it raises the except of line 105
\* takes over
RunMarkParsing(r) ==
    /\ runs[r].pc = "statements"
    /\ runs[r].idx < Len(runs[r].statements)
    /\ db_statements[runs[r].statements[runs[r].idx + 1]].storage_path /= ""
    /\ \E updated \in BOOLEAN :
          /\ runs' = [runs EXCEPT ![r].idx = @ + 1,
                                  ![r].marked = IF updated THEN <<"parsing">> ELSE <<>>,
                                  ![r].pdf_bytes = NoPdf,
                                  ![r].outcome = Running,
                                  ![r].failed = FALSE,
                                  ![r].pc = IF updated THEN "download_pdf"
                                            ELSE "except"]
          /\ db_status' =
                IF updated
                THEN update_status(db_status, runs[r].statements[runs[r].idx + 1],
                                   "parsing")
                ELSE db_status
    /\ UNCHANGED <<outside_runs, db_transactions, storage>>

\* the objects of the bucket under the path
objects_at(bucket, path) == {object \in bucket : object.path = path}

\* line 74: download_pdf, which raises when the call fails or nothing is
\* stored under the path
RunDownload(r) ==
    /\ runs[r].pc = "download_pdf"
    /\ \E downloaded \in BOOLEAN :
         \E found \in {objects_at(storage, db_statements[stmt_id(r)].storage_path)} :
            runs' = [runs EXCEPT ![r] =
                        IF downloaded /\ found /= {}
                        THEN [@ EXCEPT !.pc = "parse_statement_pdf",
                                       !.pdf_bytes = (CHOOSE object \in found : TRUE).data]
                        ELSE [@ EXCEPT !.pc = "except", !.failed = TRUE]]
    /\ UNCHANGED <<outside_runs, db_status, db_transactions, storage>>

\* lines 78-100: parse_statement_pdf returns, with or without transactions,
\* or raises
RunParse(r) ==
    /\ runs[r].pc = "parse_statement_pdf"
    /\ \E parsed \in {parse_statement_pdf(runs[r].pdf_bytes, password)} :
          runs' = [runs EXCEPT ![r] =
                      IF parsed.status = "raised"
                      THEN [@ EXCEPT !.pc = "except", !.failed = TRUE, !.outcome = parsed]
                      ELSE [@ EXCEPT !.pc = IF parsed.transactions /= <<>>
                                            THEN "insert_transactions_batch"
                                            ELSE "parsed",
                                     !.outcome = parsed]]
    /\ UNCHANGED <<outside_runs, db_status, db_transactions, storage>>

\* lines 82-96: the transactions found are inserted in one batch
RunInsert(r) ==
    /\ runs[r].pc = "insert_transactions_batch"
    /\ \E inserted \in BOOLEAN :
          /\ db_transactions' =
                IF inserted
                THEN insert_transactions_batch(db_transactions, stmt_id(r),
                                               tx_dicts(runs[r].outcome.transactions))
                ELSE db_transactions
          /\ runs' = [runs EXCEPT ![r] =
                         IF inserted
                         THEN [@ EXCEPT !.pc = "parsed",
                                        !.inserted = @ \cup {stmt_id(r)}]
                         ELSE [@ EXCEPT !.pc = "except", !.failed = TRUE]]
    /\ UNCHANGED <<outside_runs, db_status, storage>>

\* line 103: update_status(client, stmt_id, "parsed"); when it raises the
\* except of line 105 takes over
RunMarkParsed(r) ==
    /\ runs[r].pc = "parsed"
    /\ \E updated \in BOOLEAN :
          /\ db_status' =
                IF updated THEN update_status(db_status, stmt_id(r), "parsed")
                ELSE db_status
          /\ runs' = [runs EXCEPT ![r] =
                         IF updated
                         THEN [@ EXCEPT !.pc = "statements",
                                        !.marked = Append(@, "parsed")]
                         ELSE [@ EXCEPT !.pc = "except"]]
    /\ UNCHANGED <<outside_runs, db_transactions, storage>>

\* lines 105-109: update_status(client, stmt_id, "error") in the except
\* clause; when this call raises the exception leaves the loop and main
\* returns 1 (lines 121-125)
RunMarkError(r) ==
    /\ runs[r].pc = "except"
    /\ \E updated \in BOOLEAN :
          /\ db_status' =
                IF updated THEN update_status(db_status, stmt_id(r), "error")
                ELSE db_status
          /\ runs' = [runs EXCEPT ![r] =
                         IF updated
                         THEN [@ EXCEPT !.pc = "statements",
                                        !.marked = Append(@, "error")]
                         ELSE [@ EXCEPT !.pc = "exit", !.returned = 1]]
    /\ UNCHANGED <<outside_runs, db_transactions, storage>>

\* lines 111-127: no statement is left, main returns 0
RunExit(r) ==
    /\ runs[r].pc = "statements"
    /\ runs[r].idx = Len(runs[r].statements)
    /\ runs' = [runs EXCEPT ![r].pc = "exit"]
    /\ UNCHANGED <<outside_runs, db_status, db_transactions, storage>>

NextRuns ==
    \E r \in 1..MaxRuns :
        \/ RunFetch(r)
        \/ RunSkipStatement(r)
        \/ RunMarkParsing(r)
        \/ RunDownload(r)
        \/ RunParse(r)
        \/ RunInsert(r)
        \/ RunMarkParsed(r)
        \/ RunMarkError(r)
        \/ RunExit(r)

SpecRuns == InitRuns /\ [][NextRuns]_vars

(***************************************************************************)
(* Properties                                                              *)
(*                                                                         *)
(* A step that scans a line is one that leaves pc = "lines" with line_idx  *)
(* one greater; the line is lines[line_idx + 1] and the section state it   *)
(* is scanned in is current_section, both of the state before the step.    *)
(***************************************************************************)

LineScanned == pc = "lines" /\ line_idx' = line_idx + 1

\* the line the step scans, stripped as line 140 strips it
TheLine == Strip(lines[line_idx + 1])

\* the Transactions the step emits
Emitted == SubSeq(transactions', Len(transactions) + 1, Len(transactions'))

\* the step ends parse_transactions with an error
ErrorRaised == pc' = "raised"

SectionMarkers ==
    {"Payments and Other Credits", "Purchases and Cash Advances",
     "Fees and Interest Charged"}

SubTotalMarkers == {"Sub Total", "No transaction available"}

ContainsAny(line, markers) == \E mk \in markers : Contains(line, mk)

\* the line matches the date/date/description/amount layout
IsRow(line) == tx_match(line).matched

\* the four captured texts of a row
RowFields(line) == tx_match(line)

IsCalendarDate(text) == parse_date(text) /= None

IsNumber(text) == parse_amount(text) /= ValueError

\* a row whose dates and amount decode
IsDecodableRow(line) ==
    /\ IsRow(line)
    /\ IsCalendarDate(RowFields(line).g1)
    /\ IsCalendarDate(RowFields(line).g2)
    /\ IsNumber(RowFields(line).g4)

\* a decodable row that holds no marker
IsAcceptedRow(line) ==
    /\ IsDecodableRow(line)
    /\ ~ContainsAny(line, SectionMarkers \cup SubTotalMarkers)

\* the text MM/DD/YYYY of a row names a day that no calendar has
NamesImpossibleDate(text) ==
    ~ValidDate(ToInt(SubSeq(text, 7, 10)), ToInt(SubSeq(text, 1, 2)),
               ToInt(SubSeq(text, 4, 5)))

\* a date value that is a day of the calendar
IsDateValue(d) ==
    /\ d /= None
    /\ d.year >= 1
    /\ d.month \in 1..12
    /\ d.day \in 1..DaysInMonth(d.year, d.month)

HasMarker(page_text) == Contains(page_text, "Account Activity")

\* the section the highest-priority marker of a header line opens
TopSection(line) ==
    IF Contains(line, "Payments and Other Credits") THEN "credit"
    ELSE IF Contains(line, "Purchases and Cash Advances") THEN "debit"
    ELSE "fees"

\* the indices below i of the header lines of a page's lines ls
HeadersBefore(ls, i) ==
    {j \in 1..(i - 1) : ContainsAny(Strip(ls[j]), SectionMarkers)}

\* the section state in which line i of ls is scanned: that of the last
\* header line before it
SectionBefore(ls, i) ==
    IF HeadersBefore(ls, i) = {} THEN NoSection
    ELSE TopSection(Strip(ls[Greatest(HeadersBefore(ls, i))]))

\* C1: on a page with the marker, a line that matches the transaction
\* layout yields no Transaction while the section state is NONE or FEES;
\* whatever it yields in CREDIT is of type credit and in DEBIT of type debit,
\* and an accepted row yields exactly one; no Transaction ever held carries
\* a type other than credit or debit.
C1_TypeFollowsSection ==
    [][ /\ \A i \in 1..Len(transactions') :
              transactions'[i].transaction_type \in {"credit", "debit"}
        /\ (LineScanned /\ IsRow(TheLine)) =>
              /\ Contains(pages_text[page_idx], "Account Activity")
              /\ current_section \in {NoSection, "fees"} => Emitted = <<>>
              /\ \A i \in 1..Len(Emitted) :
                    Emitted[i].transaction_type = current_section
              /\ (IsAcceptedRow(TheLine) /\ current_section \in {"credit", "debit"})
                    => Len(Emitted) = 1
      ]_vars

\* an accepted row has just been scanned in the credits and is held, last,
\* as a credit
C1_CreditRowEmitted ==
    /\ pc = "lines" /\ line_idx >= 1
    /\ IsAcceptedRow(Strip(lines[line_idx]))
    /\ current_section = "credit"
    /\ transactions /= <<>>
    /\ transactions[Len(transactions)].transaction_type = "credit"
    /\ transactions[Len(transactions)].description
          = Strip(RowFields(Strip(lines[line_idx])).g3)

\* C2: every Transaction held by parse_transactions, and every Transaction
\* of the sequence parse_statement_pdf returns, has an amount >= 0.
C2_AmountNonNegative ==
    /\ \A i \in 1..Len(transactions) : transactions[i].amount.num >= 0
    /\ result.status = "returned" =>
          \A i \in 1..Len(result.transactions) : result.transactions[i].amount.num >= 0

\* a statement with a row whose amount is written in parentheses has been
\* returned, with a Transaction of a positive amount
C2_ReturnedWithParenthesisedRow ==
    /\ result.status = "returned"
    /\ Len(pages_text) >= 1
    /\ Contains(pages_text[1], "(5.00)")
    /\ \E i \in 1..Len(result.transactions) : result.transactions[i].amount.num > 0

\* C3: a row scanned in the credits or debits whose amount text is no number
\* is discarded silently: it emits no Transaction, raises no error, and the
\* scan goes on with the next line.
C3_BadAmountDiscarded ==
    [][ ( /\ LineScanned
          /\ IsRow(TheLine)
          /\ ~ContainsAny(TheLine, SectionMarkers \cup SubTotalMarkers)
          /\ current_section \in {"credit", "debit"}
          /\ ~IsNumber(RowFields(TheLine).g4) )
        => (Emitted = <<>> /\ ~ErrorRaised /\ pc' = "lines")
      ]_vars

\* C4: a row that names an impossible date in either position emits no
\* Transaction and raises no error, and every Transaction held has two
\* valid calendar dates.
C4_ImpossibleDateDiscarded ==
    [][ /\ \A i \in 1..Len(transactions') :
              /\ IsDateValue(transactions'[i].posted_date)
              /\ IsDateValue(transactions'[i].transaction_date)
        /\ ( /\ LineScanned
              /\ IsRow(TheLine)
              /\ \/ NamesImpossibleDate(RowFields(TheLine).g1)
                 \/ NamesImpossibleDate(RowFields(TheLine).g2) )
           => (Emitted = <<>> /\ ~ErrorRaised)
      ]_vars

\* C5: a page without the marker "Account Activity" contributes nothing:
\* the page loop passes it leaving the transactions and the section state
\* as they were and scanning none of its lines, and the transactions and
\* the section state change only on a page that holds the marker.
C5_UnmarkedPageContributesNothing ==
    [][ /\ (page_idx' = page_idx + 1 /\ ~HasMarker(pages_text[page_idx']))
           => /\ transactions' = transactions
              /\ current_section' = current_section
              /\ lines' = lines
              /\ pc' = "pages"
        /\ (transactions' /= transactions \/ current_section' /= current_section)
           => (page_idx' >= 1 /\ HasMarker(pages_text[page_idx']))
      ]_vars

\* the second page, without the marker, holds a credits header and a row
\* that would be accepted; it has been passed and the transactions are
\* those the first page gave
C5_UnmarkedPagePassed ==
    /\ pc = "pages" /\ page_idx = 2
    /\ HasMarker(pages_text[1])
    /\ ~HasMarker(pages_text[2])
    /\ Contains(pages_text[2], "Payments and Other Credits")
    /\ \E i \in 1..Len(SplitLines(pages_text[2])) :
          /\ IsAcceptedRow(Strip(SplitLines(pages_text[2])[i]))
          /\ SectionBefore(SplitLines(pages_text[2]), i) = "credit"
    /\ Len(transactions) = 2
    /\ \A i \in 1..Len(transactions) :
          Contains(pages_text[1], transactions[i].description)

\* C6: the section state is NONE when the scan of a page with the marker
\* starts, so a row scanned before the page's first section header yields
\* no Transaction, whatever state the page before ended in.
C6_SectionResetPerPage ==
    [][ /\ (pc = "pages" /\ pc' = "lines") => current_section' = NoSection
        /\ ( /\ LineScanned
              /\ IsRow(TheLine)
              /\ HeadersBefore(lines, line_idx + 1) = {} )
           => (current_section = NoSection /\ Emitted = <<>>)
      ]_vars

\* the first page ended in the credits or the debits; on the second page
\* an acceptable row has been scanned before any header and the
\* transactions are still those of the first page
C6_RowBeforeFirstHeader ==
    /\ pc = "lines" /\ page_idx = 2 /\ line_idx >= 1
    /\ HasMarker(pages_text[1])
    /\ SectionBefore(SplitLines(pages_text[1]), Len(SplitLines(pages_text[1])) + 1)
          \in {"credit", "debit"}
    /\ IsAcceptedRow(Strip(lines[line_idx]))
    /\ HeadersBefore(lines, line_idx) = {}
    /\ current_section = NoSection
    /\ transactions /= <<>>
    /\ \A i \in 1..Len(transactions) :
          Contains(pages_text[1], transactions[i].description)

\* C7: a line that contains a header marker sets the section state to the
\* section of the highest-priority marker it contains (credits, then debits,
\* then fees) and is never emitted and never an error, even when it is a
\* row; a line without a header marker leaves the section state as it was.
C7_HeaderPriority ==
    [][ LineScanned =>
          IF ContainsAny(TheLine, SectionMarkers)
          THEN /\ current_section' = TopSection(TheLine)
               /\ Emitted = <<>>
               /\ ~ErrorRaised
          ELSE current_section' = current_section
      ]_vars

\* in the debits a decodable row that holds the debits marker and, after it,
\* the credits marker has been scanned: the state is CREDIT, nothing is held
C7_RowWithTwoMarkers ==
    /\ pc = "lines" /\ line_idx >= 2
    /\ SectionBefore(lines, line_idx) = "debit"
    /\ IsDecodableRow(Strip(lines[line_idx]))
    /\ Contains(lines[line_idx], "Purchases and Cash Advances Payments and Other Credits")
    /\ current_section = "credit"
    /\ transactions = <<>>

\* C8: a line that contains "Sub Total" or "No transaction available" and no
\* section-header marker leaves the section state unchanged, emits no
\* Transaction and raises no error, in every state, row or not.
C8_SubTotalIgnored ==
    [][ ( /\ LineScanned
          /\ ContainsAny(TheLine, SubTotalMarkers)
          /\ ~ContainsAny(TheLine, SectionMarkers) )
        => /\ current_section' = current_section
           /\ Emitted = <<>>
           /\ ~ErrorRaised
      ]_vars

\* in the debits a decodable row described as "Sub Total" has been scanned:
\* the state is still DEBIT and nothing is held
C8_SubTotalRowInDebits ==
    /\ pc = "lines" /\ line_idx >= 2
    /\ SectionBefore(lines, line_idx) = "debit"
    /\ IsDecodableRow(Strip(lines[line_idx]))
    /\ RowFields(Strip(lines[line_idx])).g3 = "Sub Total"
    /\ current_section = "debit"
    /\ transactions = <<>>

\* the Transaction of an accepted row scanned in a section
RowTransaction(line, section) ==
    [posted_date      |-> parse_date(RowFields(line).g1),
     transaction_date |-> parse_date(RowFields(line).g2),
     description      |-> Strip(RowFields(line).g3),
     amount           |-> parse_amount(RowFields(line).g4),
     transaction_type |-> section]

\* the indices, ascending, of the lines of ls that are accepted rows inside
\* the credits or the debits
AcceptedLines(ls) ==
    SelectSeq([i \in 1..Len(ls) |-> i],
              LAMBDA i : /\ IsAcceptedRow(Strip(ls[i]))
                         /\ SectionBefore(ls, i) \in {"credit", "debit"})

\* one Transaction per accepted line of ls, in line order
LinesTransactions(ls) ==
    [k \in 1..Len(AcceptedLines(ls)) |->
        RowTransaction(Strip(ls[AcceptedLines(ls)[k]]),
                       SectionBefore(ls, AcceptedLines(ls)[k]))]

\* the Transactions of a page: none unless it holds the marker
PageTransactions(page_text) ==
    IF HasMarker(page_text) THEN LinesTransactions(SplitLines(page_text)) ELSE <<>>

\* the Transactions of the pages, page after page
RECURSIVE PagesTransactions(_)
PagesTransactions(pages) ==
    IF pages = <<>> THEN <<>>
    ELSE PageTransactions(Head(pages)) \o PagesTransactions(Tail(pages))

\* C9: the sequence parse returns is one Transaction per accepted row of
\* the pages that hold the marker, the first page included, in page order
\* and within a page in line order.
C9_ReturnedInPageAndLineOrder ==
    result.status = "returned" => result.transactions = PagesTransactions(pages_text)

\* two pages with the marker have been parsed and three or more
\* Transactions returned, the first from the first page and the last from
\* the second
C9_TwoPagesReturned ==
    /\ result.status = "returned"
    /\ Len(pages_text) = 2
    /\ HasMarker(pages_text[1]) /\ HasMarker(pages_text[2])
    /\ pages_text[1] /= pages_text[2]
    /\ Len(result.transactions) >= 3
    /\ PageTransactions(pages_text[1]) /= <<>>
    /\ result.transactions[1] = PageTransactions(pages_text[1])[1]
    /\ PageTransactions(pages_text[2]) /= <<>>
    /\ result.transactions[Len(result.transactions)]
          = PageTransactions(pages_text[2])[Len(PageTransactions(pages_text[2]))]

\* C10: with a wrong password, or an input that is no PDF container,
\* parse_statement_pdf ends in the error raised while decrypting, which is
\* the cause itself; extract_text_from_pdf and parse_transactions are never
\* entered and nothing is returned.
C10_DecryptFailureStopsParse ==
    (pc /= "decrypt_pdf" /\ (password /= UserPassword \/ ~pdf_bytes.container_ok))
    => /\ pc = "raised"
       /\ result.status = "raised"
       /\ result.in = "decrypt_pdf"
       /\ result.error = (IF pdf_bytes.container_ok THEN "PasswordError" ELSE "PdfError")
       /\ ran = {"decrypt_pdf"}
       /\ pages_text = <<>>
       /\ transactions = <<>>

\* a readable statement with rows was given with the wrong password and the
\* parse has ended in the password error
C10_WrongPasswordRaised ==
    /\ password /= UserPassword
    /\ pdf_bytes.container_ok /\ pdf_bytes.structure_ok
    /\ Len(pdf_bytes.pages) >= 1
    /\ PageTransactions(pdf_bytes.pages[1].text) /= <<>>
    /\ pc = "raised"
    /\ result = Raised("PasswordError", "decrypt_pdf")

\* the text of a page of the PDF, "" for a page without any
PageText(page) == IF page.has_text THEN page.text ELSE ""

\* the texts of all the pages of the PDF, in page order
AllPageTexts(pdf) == [i \in 1..Len(pdf.pages) |-> PageText(pdf.pages[i])]

\* the PDF opens with the password given
Decrypts == pdf_bytes.container_ok /\ password = UserPassword

\* the text of every page of the PDF can be extracted
Extracts == pdf_bytes.structure_ok /\ pdf_bytes.bad_page = 0

\* C11: parse_statement_pdf never commits a part: when it has returned, the
\* pair holds the Transactions of all the pages of the PDF and the summary;
\* when it has raised, there is an error and no pair; and when the text of
\* the PDF or of any one page cannot be extracted, the error of the
\* extraction is what it raises, parse_transactions is not entered and no
\* shorter page sequence is ever parsed.
C11_NoPartialResult ==
    /\ pc = "done" =>
          /\ Decrypts /\ Extracts
          /\ pages_text = AllPageTexts(pdf_bytes)
          /\ result = Returned(PagesTransactions(AllPageTexts(pdf_bytes)), summary)
    /\ pc = "raised" => DOMAIN result = {"status", "error", "in"}
    /\ pc \notin {"done", "raised"} => result = Running
    /\ (Decrypts /\ ~Extracts /\ pc \notin {"decrypt_pdf", "extract_text_from_pdf"}) =>
          /\ pc = "raised"
          /\ result.status = "raised"
          /\ result.in = "extract_text_from_pdf"
          /\ result.error \in {"PDFSyntaxError", "PDFTextExtractionError"}
          /\ "parse_transactions" \notin ran
          /\ pages_text = <<>>
          /\ transactions = <<>>

\* the second page of a decrypted two-page statement, whose first page holds
\* accepted rows, could not be extracted and the parse has ended in that error
C11_SecondPageUnreadable ==
    /\ Decrypts
    /\ Len(pdf_bytes.pages) = 2
    /\ pdf_bytes.bad_page = 2
    /\ PageTransactions(PageText(pdf_bytes.pages[1])) /= <<>>
    /\ pc = "raised"
    /\ result = Raised("PDFTextExtractionError", "extract_text_from_pdf")

\* the line without its parentheses
Unwrapped(line) == Remove(Remove(line, "("), ")")

\* a row whose amount, and nothing else, is written in parentheses
IsParenthesisedRow(line) ==
    /\ Len(line) >= 1 /\ Char(line, Len(line)) = ")"
    /\ Cardinality(SepPositions(line, "(")) = 1
    /\ Cardinality(SepPositions(line, ")")) = 1
    /\ IsAcceptedRow(Unwrapped(line))
    /\ "(" \o RowFields(Unwrapped(line)).g4 \o ")"
         = SubSeq(line, Greatest(SepPositions(line, "(")), Len(line))
         \/ "($" \o RowFields(Unwrapped(line)).g4 \o ")"
         = SubSeq(line, Greatest(SepPositions(line, "(")), Len(line))

\* C12: a row scanned in the credits or debits whose amount is written in
\* parentheses yields one Transaction of the section's type whose amount is
\* the negated value.
C12_ParenthesisedAmountNegated ==
    [][ ( /\ LineScanned
          /\ current_section \in {"credit", "debit"}
          /\ IsParenthesisedRow(TheLine) )
        => Emitted = <<[RowTransaction(Unwrapped(TheLine), current_section)
                          EXCEPT !.amount = Negated(@)]>>
      ]_vars

\* the digits of a text, in order
RECURSIVE DigitsIn(_)
DigitsIn(a) ==
    IF a = "" THEN ""
    ELSE (IF IsDigit(Char(a, 1)) THEN Char(a, 1) ELSE "") \o DigitsIn(Tail(a))

\* the number of digits after the decimal point of a text, 0 without one
FractionDigits(a) ==
    IF SepPositions(a, ".") = {} THEN 0
    ELSE Len(DigitsIn(SubSeq(a, Greatest(SepPositions(a, ".")) + 1, Len(a))))

RECURSIVE Pow10(_)
Pow10(n) == IF n = 0 THEN 1 ELSE 10 * Pow10(n - 1)

\* digits, grouping commas and at most one decimal point, one digit at least
IsDigitsText(t) ==
    /\ \A i \in 1..Len(t) : IsDigit(Char(t, i)) \/ Char(t, i) \in {",", "."}
    /\ Cardinality(SepPositions(t, ".")) <= 1
    /\ DigitsIn(t) /= ""

\* the amount text without the blanks around it and without currency symbol
Bare(a) == Remove(Strip(a), "$")

\* an amount text without parentheses
IsPlainAmount(a) == IsDigitsText(Bare(a))

\* an amount text wrapped in parentheses
IsWrappedAmount(a) ==
    /\ Len(Bare(a)) >= 2
    /\ Char(Bare(a), 1) = "(" /\ Char(Bare(a), Len(Bare(a))) = ")"
    /\ IsDigitsText(SubSeq(Bare(a), 2, Len(Bare(a)) - 1))

\* v is the number written by the digits of a, with the sign given
IsValueOfDigits(v, sign, a) ==
    /\ v /= ValueError
    /\ v.num * Pow10(FractionDigits(a)) = sign * ToInt(DigitsIn(a)) * Pow10(v.exp)

\* C13: parse_amount strips the currency symbol and the grouping commas and
\* negates a value wrapped in parentheses: "($123.45)" gives -123.45,
\* "$1,234.56" gives 1234.56, every wrapped amount text gives minus the value
\* of its digits and every amount text without parentheses the value of its
\* digits, which is not negative.
C13_AmountDecoding ==
    (call.fn = "parse_amount" /\ value /= Pending) =>
        /\ call.arg = "($123.45)" => value = [num |-> 0 - 12345, exp |-> 2]
        /\ call.arg = "$1,234.56" => value = [num |-> 123456, exp |-> 2]
        /\ IsWrappedAmount(call.arg) => IsValueOfDigits(value, 0 - 1, call.arg)
        /\ IsPlainAmount(call.arg) =>
              (IsValueOfDigits(value, 1, call.arg) /\ value.num >= 0)

\* parse_amount has returned -123.45 for "($123.45)"
C13_WrappedAmountDecoded ==
    /\ call.fn = "parse_amount"
    /\ call.arg = "($123.45)"
    /\ IsWrappedAmount(call.arg)
    /\ value = [num |-> 0 - 12345, exp |-> 2]

\* the text MM/DD/YYYY: digits and slashes in their places
IsSlashDate(t) ==
    /\ Len(t) = 10
    /\ DigitsIn(t) = SubSeq(t, 1, 2) \o SubSeq(t, 4, 5) \o SubSeq(t, 7, 10)
    /\ SubSeq(t, 3, 3) = "/" /\ SubSeq(t, 6, 6) = "/"

\* the date a text MM/DD/YYYY names, read month first
MonthFirstDate(t) ==
    [year  |-> ToInt(SubSeq(t, 7, 10)),
     month |-> ToInt(SubSeq(t, 1, 2)),
     day   |-> ToInt(SubSeq(t, 4, 5))]

\* the line after its first ten characters, and after the next ten of that
AfterDate1(line) == Strip(SubSeq(line, 11, Len(line)))
AfterDate2(line) == Strip(SubSeq(AfterDate1(line), 11, Len(AfterDate1(line))))

\* the last blank-delimited token of a text and the text before it
LastToken(t) == SubSeq(t, Greatest(SepPositions(t, " ")) + 1, Len(t))
BeforeLastToken(t) == Strip(SubSeq(t, 1, Greatest(SepPositions(t, " "))))

\* a number, optionally prefixed by "$" and comma-grouped
IsAmountToken(t) ==
    \/ IsDigitsText(t)
    \/ (Len(t) >= 2 /\ SubSeq(t, 1, 1) = "$" /\ IsDigitsText(SubSeq(t, 2, Len(t))))

\* <date1> <date2> <description> <amount>, separated by one or more blanks,
\* with two calendar dates, and no marker in it
IsWellFormedRow(line) ==
    /\ ~ContainsAny(line, SectionMarkers \cup SubTotalMarkers)
    /\ \A i \in 1..Len(line) : SubSeq(line, i, i) \notin {"\t", "\r", "\n"}
    /\ Len(line) >= 11
    /\ IsSlashDate(SubSeq(line, 1, 10)) /\ SubSeq(line, 11, 11) = " "
    /\ Len(AfterDate1(line)) >= 11
    /\ IsSlashDate(SubSeq(AfterDate1(line), 1, 10))
    /\ SubSeq(AfterDate1(line), 11, 11) = " "
    /\ SepPositions(AfterDate2(line), " ") /= {}
    /\ IsAmountToken(LastToken(AfterDate2(line)))
    /\ ~NamesImpossibleDate(SubSeq(line, 1, 10))
    /\ ~NamesImpossibleDate(SubSeq(AfterDate1(line), 1, 10))

\* C14: a well-formed row scanned in the credits or debits emits one
\* Transaction of the section's type: posted_date is the first date and
\* transaction_date the second, both read month first; the description is
\* the trimmed text between the second date and the last blank-delimited
\* token, numeric tokens included; the amount is the value of that token.
C14_RowFields ==
    [][ ( /\ LineScanned
          /\ current_section \in {"credit", "debit"}
          /\ IsWellFormedRow(TheLine) )
        => /\ Len(Emitted) = 1
           /\ Emitted[1].posted_date = MonthFirstDate(SubSeq(TheLine, 1, 10))
           /\ Emitted[1].transaction_date
                 = MonthFirstDate(SubSeq(AfterDate1(TheLine), 1, 10))
           /\ Emitted[1].description = BeforeLastToken(AfterDate2(TheLine))
           /\ IsValueOfDigits(Emitted[1].amount, 1, LastToken(AfterDate2(TheLine)))
           /\ Emitted[1].transaction_type = current_section
      ]_vars

\* the row "04/02/2024 04/01/2024  ITEM 12 OF 3 1,234.56" has been scanned
\* in the debits and is held with its numeric tokens in the description
C14_NumericTokensKept ==
    /\ pc = "lines" /\ line_idx >= 1
    /\ lines[line_idx] = "04/02/2024 04/01/2024  ITEM 12 OF 3 1,234.56"
    /\ IsWellFormedRow(lines[line_idx])
    /\ current_section = "debit"
    /\ transactions =
          <<[posted_date      |-> [year |-> 2024, month |-> 4, day |-> 2],
             transaction_date |-> [year |-> 2024, month |-> 4, day |-> 1],
             description      |-> "ITEM 12 OF 3",
             amount           |-> [num |-> 123456, exp |-> 2],
             transaction_type |-> "debit"]>>

\* the step runs the summary extraction of parse_transactions
SummaryExtracted == pc = "parse_transactions"

\* the text DD-MM-YYYY names a calendar day
IsDayFirstDate(t) ==
    ValidDate(ToInt(SubSeq(t, 7, 10)), ToInt(SubSeq(t, 4, 5)), ToInt(SubSeq(t, 1, 2)))

\* the bill period pattern matches the page with two calendar days
BillPeriodFound(page_text) ==
    /\ bill_period_match(page_text).matched
    /\ IsDayFirstDate(bill_period_match(page_text).g1)
    /\ IsDayFirstDate(bill_period_match(page_text).g2)

\* the balance pattern matches the page with a number
PrevBalanceFound(page_text) ==
    /\ prev_balance_match(page_text).matched
    /\ IsNumber(prev_balance_match(page_text).g1)

NewBalanceFound(page_text) ==
    /\ new_balance_match(page_text).matched
    /\ IsNumber(new_balance_match(page_text).g1)

\* C15: the bill period, the previous balance and the new balance of the
\* summary are extracted independently of each other: each is present
\* exactly when its own pattern matches the first page (with a value that
\* can be decoded), whatever the other two patterns do, and is None
\* otherwise; the extraction raises nothing. (Whether the two dates of the
\* bill period go together is C28's matter: here the start is looked at on
\* its own.)
C15_SummaryFieldsIndependent ==
    [][ (SummaryExtracted /\ pages_text /= <<>>) =>
          /\ ~ErrorRaised
          /\ (summary'.bill_period_start /= None) <=>
                (/\ bill_period_match(pages_text[1]).matched
                 /\ IsDayFirstDate(bill_period_match(pages_text[1]).g1))
          /\ (summary'.bill_period_end /= None) <=> BillPeriodFound(pages_text[1])
          /\ (summary'.previous_balance /= None) <=> PrevBalanceFound(pages_text[1])
          /\ (summary'.new_balance /= None) <=> NewBalanceFound(pages_text[1])
      ]_vars

\* the summary has been extracted: the page loop runs, has returned, or has
\* raised on a line
AfterSummary ==
    pc \in {"pages", "lines", "done"} \/ (pc = "raised" /\ page_idx >= 1)

SummaryKeywords == {"Bill Period", "Previous Balance", "New Balance"}

\* C16: the summary depends on the text of the first page only: once
\* extracted it is what the first page alone gives and stays so while the
\* pages are scanned, whatever they hold; it is what is returned; when the
\* first page names no summary item every field is None, whatever the later
\* pages name; and for no pages at all every field is None.
C16_SummaryFromFirstPageOnly ==
    /\ (AfterSummary /\ pages_text = <<>>) => summary = StatementSummary
    /\ (AfterSummary /\ pages_text /= <<>>) =>
          /\ summary = summary_of(pages_text[1])
          /\ ~ContainsAny(pages_text[1], SummaryKeywords) => summary = StatementSummary
    /\ pc = "done" => result.summary = summary

\* a two-page statement has been returned whose first page holds rows and no
\* summary item and whose second page holds the three of them: every field
\* of the summary is None
C16_SummaryTextOnSecondPage ==
    /\ pc = "done"
    /\ Len(pages_text) = 2
    /\ ~ContainsAny(pages_text[1], SummaryKeywords)
    /\ \A k \in SummaryKeywords : Contains(pages_text[2], k)
    /\ result.transactions /= <<>>
    /\ result.summary = StatementSummary

\* C17: the dates of the bill period are read day first: a first page with
\* "Bill Period: 01-03-2024 - 31-03-2024", "Previous Balance $200.00" and
\* "New Balance $350.25" gives a summary with bill_period_start 1 March
\* 2024, bill_period_end 31 March 2024, previous_balance 200.00 and
\* new_balance 350.25, and every bill period of two calendar days gives the
\* days its texts name day first.
C17_BillPeriodDayFirst ==
    (AfterSummary /\ pages_text /= <<>>) =>
        /\ ( /\ Contains(pages_text[1], "Bill Period: 01-03-2024 - 31-03-2024")
              /\ Contains(pages_text[1], "Previous Balance $200.00")
              /\ Contains(pages_text[1], "New Balance $350.25") )
           => /\ summary.bill_period_start = [year |-> 2024, month |-> 3, day |-> 1]
              /\ summary.bill_period_end = [year |-> 2024, month |-> 3, day |-> 31]
              /\ summary.previous_balance = [num |-> 200, exp |-> 0]
              /\ summary.new_balance = [num |-> 35025, exp |-> 2]
        /\ BillPeriodFound(pages_text[1])
           => /\ summary.bill_period_start =
                    [year  |-> ToInt(SubSeq(bill_period_match(pages_text[1]).g1, 7, 10)),
                     month |-> ToInt(SubSeq(bill_period_match(pages_text[1]).g1, 4, 5)),
                     day   |-> ToInt(SubSeq(bill_period_match(pages_text[1]).g1, 1, 2))]
              /\ summary.bill_period_end =
                    [year  |-> ToInt(SubSeq(bill_period_match(pages_text[1]).g2, 7, 10)),
                     month |-> ToInt(SubSeq(bill_period_match(pages_text[1]).g2, 4, 5)),
                     day   |-> ToInt(SubSeq(bill_period_match(pages_text[1]).g2, 1, 2))]

\* the statement whose first page is the three lines has been returned with
\* the four values
C17_ExampleSummaryReturned ==
    /\ pc = "done"
    /\ pages_text /= <<>>
    /\ pages_text[1] = "Bill Period: 01-03-2024 - 31-03-2024\nPrevious Balance $200.00\nNew Balance $350.25"
    /\ result.summary.bill_period_start = [year |-> 2024, month |-> 3, day |-> 1]
    /\ result.summary.bill_period_end = [year |-> 2024, month |-> 3, day |-> 31]
    /\ result.summary.previous_balance = [num |-> 200, exp |-> 0]
    /\ result.summary.new_balance = [num |-> 35025, exp |-> 2]

\* C18: parse_statement_pdf holds no state across its calls: of the calls
\* one run of the script has made, in whatever order and with calls on
\* other statements between them, any two that were given the same bytes
\* and the same password gave back the same outcome, that is the same
\* ordered transactions and the same summary.
C18_SameInputSameResult ==
    \A i, j \in 1..Len(outcomes) :
        (/\ outcomes[i].pdf_bytes = outcomes[j].pdf_bytes
         /\ outcomes[i].password = outcomes[j].password)
        => outcomes[i].result = outcomes[j].result

\* a statement with transactions has been parsed twice, with another
\* statement that has transactions of its own parsed in between
C18_SameStatementTwiceInterleaved ==
    /\ Len(outcomes) = 3
    /\ outcomes[1].pdf_bytes = outcomes[3].pdf_bytes
    /\ outcomes[2].pdf_bytes /= outcomes[1].pdf_bytes
    /\ outcomes[1].result.status = "returned"
    /\ Len(outcomes[1].result.transactions) = 2
    /\ outcomes[2].result.status = "returned"
    /\ outcomes[3].result.status = "returned"

\* the statement at place i of the fetched list has been dealt with
Processed(i) ==
    /\ i <= stmt_idx
    /\ (i = stmt_idx => pc \in {"next_statement", "exit"})

\* the rows of the transactions table that belong to statement i
RowsOf(i) == SelectSeq(db_transactions, LAMBDA row : row.statement_id = i)

\* the statement's PDF opens with the script's password, its pages can be
\* read, and no page with the marker holds an accepted row
HasNoTransactions(stmt) ==
    /\ stmt.storage_path /= ""
    /\ stmt.pdf.container_ok /\ password = UserPassword
    /\ stmt.pdf.structure_ok /\ stmt.pdf.bad_page = 0
    /\ PagesTransactions(AllPageTexts(stmt.pdf)) = <<>>

\* C19: a statement without a page that holds the marker, or without an
\* accepted row, is parsed with success: parse_statement_pdf returns the
\* empty sequence with the summary, and the script marks the statement
\* 'parsed' and inserts no row for it.
C19_EmptyStatementParsed ==
    \A i \in 1..Len(statements) :
        (Processed(i) /\ HasNoTransactions(statements[i])) =>
            /\ db_status[i] = "parsed"
            /\ RowsOf(i) = <<>>
            /\ \E k \in 1..Len(outcomes) :
                  /\ outcomes[k].pdf_bytes = statements[i].pdf
                  /\ outcomes[k].result.status = "returned"
                  /\ outcomes[k].result.transactions = <<>>

\* extract_text_from_pdf has returned: parse_transactions is about to run,
\* runs, has returned or has raised
TextExtracted ==
    \/ pc \in {"parse_transactions", "pages", "lines", "done"}
    \/ pc = "raised" /\ result.in = "parse_transactions"

\* C20: the text extractor returns one string per page of the PDF, in page
\* order: the string at place i is the text of page i, and the empty string
\* when page i has no text, so that no page is left out and the places of
\* the pages after it do not shift.
C20_OneTextPerPage ==
    TextExtracted =>
        /\ Len(pages_text) = Len(pdf_bytes.pages)
        /\ \A i \in 1..Len(pdf_bytes.pages) :
              /\ pdf_bytes.pages[i].has_text => pages_text[i] = pdf_bytes.pages[i].text
              /\ ~pdf_bytes.pages[i].has_text => pages_text[i] = ""

\* a two-page statement whose first page has no text and whose second page
\* holds rows has been parsed: the second text is still at the second place
C20_EmptyFirstPageKeepsItsPlace ==
    /\ pc = "done"
    /\ Len(pdf_bytes.pages) = 2
    /\ ~pdf_bytes.pages[1].has_text
    /\ pdf_bytes.pages[2].has_text
    /\ pages_text = <<"", pdf_bytes.pages[2].text>>
    /\ result.transactions /= <<>>

\* the balance pattern matches the page with a text that is no number
PrevBalanceUndecodable(page_text) ==
    /\ prev_balance_match(page_text).matched
    /\ ~IsNumber(prev_balance_match(page_text).g1)

NewBalanceUndecodable(page_text) ==
    /\ new_balance_match(page_text).matched
    /\ ~IsNumber(new_balance_match(page_text).g1)

\* C22: a balance of the first page whose text matches the pattern but is
\* no number (as "1.2.3" or "350.25.") is a silent exclusion: the summary
\* extraction raises nothing, the field is left None, and the other balance
\* is still decoded when its own text is a number.
C22_BadBalanceIsSilent ==
    [][ (SummaryExtracted /\ pages_text /= <<>>) =>
          /\ pc' /= "raised"
          /\ PrevBalanceUndecodable(pages_text[1]) => summary'.previous_balance = None
          /\ NewBalanceUndecodable(pages_text[1]) => summary'.new_balance = None
          /\ PrevBalanceFound(pages_text[1]) => summary'.previous_balance /= None
          /\ NewBalanceFound(pages_text[1]) => summary'.new_balance /= None
      ]_vars

\* C28: in every summary parse_transactions returns, bill_period_start and
\* bill_period_end are both present or both absent.
C28_BillPeriodBothOrNeither ==
    result.status = "returned" =>
        (result.summary.bill_period_start = None
            <=> result.summary.bill_period_end = None)

\* the name contains one of the characters < > : " / \ | ? *
HasInvalidChar(name) == \E i \in 1..Len(name) : IsInvalidChar(SubSeq(name, i, i))

\* C29: _sanitize_filename returns a name of at most 200 characters, with
\* none of the characters < > : " / \ | ? * and no two underscores in a row,
\* and sanitizing the name it returned gives that name again.
C29_SanitizedName ==
    (call.fn = "_sanitize_filename" /\ value /= Pending) =>
        /\ Len(value.returned) <= 200
        /\ ~HasInvalidChar(value.returned)
        /\ ~Contains(value.returned, "__")
        /\ _sanitize_filename(value.returned) = value.returned

\* the categories of VALID_CATEGORIES
ValidCategories == {VALID_CATEGORIES[i] : i \in 1..Len(VALID_CATEGORIES)}

\* Ollama did not answer with status 200 and a body that can be read
ReplyFailed(reply) ==
    \/ reply.error /= "none"
    \/ reply.status_code /= 200
    \/ reply.json \in {"invalid", "null_response"}

\* the name occurs in the text, whatever the case of the letters
OccursIn(name, text) == Contains(Lower(text), Lower(name))

\* the text Ollama answered
ReplyText(reply) == IF reply.json = "object" THEN reply.response ELSE ""

\* the category is the first of the list whose name occurs in the text, or
\* "Other" when none does
IsFirstNamed(category, text) ==
    \/ /\ \A i \in 1..Len(VALID_CATEGORIES) : ~OccursIn(VALID_CATEGORIES[i], text)
       /\ category = "Other"
    \/ \E i \in 1..Len(VALID_CATEGORIES) :
          /\ category = VALID_CATEGORIES[i]
          /\ OccursIn(VALID_CATEGORIES[i], text)
          /\ \A j \in 1..(i - 1) : ~OccursIn(VALID_CATEGORIES[j], text)

\* C30: categorize_with_ollama returns None when Ollama's answer is no 200
\* response that can be read, and otherwise the first category of
\* VALID_CATEGORIES whose name occurs in the reply whatever the case, or
\* "Other"; a row's category is NULL, or a valid category: for a row of this
\* run the one categorize_with_ollama returned for it; and a row for which
\* None was returned keeps its NULL.
C30_OnlyValidCategories ==
    /\ \A k \in 1..Len(categorized) :
          /\ ReplyFailed(categorized[k].reply) <=> categorized[k].category = None
          /\ ~ReplyFailed(categorized[k].reply) =>
                /\ categorized[k].category.str \in ValidCategories
                /\ IsFirstNamed(categorized[k].category.str,
                                ReplyText(categorized[k].reply))
          /\ db_category[categorized[k].tx] \in {None, categorized[k].category}
    /\ \A i \in 1..Len(db_category) :
          db_category[i] = None \/ db_category[i].str \in ValidCategories

\* two rows have been through the loop: for the first Ollama named two
\* categories and the first of the list was written, for the second it
\* failed and the row was skipped
C30_OneWrittenOneSkipped ==
    /\ cat_pc = "exit"
    /\ Len(categorized) = 2
    /\ categorized[1].reply = Reply("none", 200, "object", "Food & Dining or Shopping")
    /\ db_category[categorized[1].tx] = Str("Shopping")
    /\ categorized[2].category = None
    /\ db_category[categorized[2].tx] = None

\* the step takes the next attachment of the mailbox
AttachmentTaken == fetch_pc = "attachments" /\ att_idx' = att_idx + 1

\* the name the step's attachment is stored under
TheName == safe_name(mailbox[att_idx + 1])

\* the statements table has a record of the filename
HasRecord(filename) == \E i \in 1..Len(db_statements) : db_statements[i].filename = filename

\* C26: fetching is idempotent per filename: an attachment whose sanitized
\* filename has a statement record already is skipped, nothing is uploaded
\* and no record is created for it; so, run after run and for attachments of
\* equal names within a run, no two statement records have the same
\* filename; and every record is created with status 'not_parsed'.
C26_OneRecordPerFilename ==
    [][ /\ (AttachmentTaken /\ HasRecord(TheName)) =>
              /\ storage' = storage
              /\ db_statements' = db_statements
              /\ db_status' = db_status
        /\ \A i, j \in 1..Len(db_statements') :
              db_statements'[i].filename = db_statements'[j].filename => i = j
        /\ Len(db_status') = Len(db_statements')
        /\ \A i \in (Len(db_statements) + 1)..Len(db_statements') :
              db_status'[i] = "not_parsed"
      ]_vars

\* two attachments of one sanitized name have been through two runs: one
\* object is stored and one record exists
C26_SameNameTwiceInTwoRuns ==
    /\ fetch_runs = 2
    /\ fetch_pc = "start"
    /\ Len(mailbox) = 2
    /\ att_idx = 2
    /\ mailbox[1] /= mailbox[2]
    /\ safe_name(mailbox[1]) = safe_name(mailbox[2])
    /\ Len(db_statements) = 1
    /\ db_statements[1].filename = safe_name(mailbox[1])
    /\ db_status = <<"not_parsed">>
    /\ Cardinality(storage) = 1

\* C27: between the runs of the fetcher every PDF of the storage has a
\* statement record, and every statement record points at a PDF of the
\* storage.
C27_StorageAndRecordsAgree ==
    fetch_pc = "start" =>
        /\ \A object \in storage :
              \E i \in 1..Len(db_statements) : db_statements[i].storage_path = object.path
        /\ \A i \in 1..Len(db_statements) :
              \E object \in storage : object.path = db_statements[i].storage_path

\* run r has taken a statement from its list
AtStatement(r) == runs[r].idx > 0

\* the rows of the transactions table that the run's parse of its statement
\* gives
RowsFound(r) == records_of(stmt_id(r), tx_dicts(runs[r].outcome.transactions))

\* the rows are in the table, one after the other
HoldsRows(table, rows) ==
    \E k \in 0..(Len(table) - Len(rows)) : SubSeq(table, k + 1, k + Len(rows)) = rows

\* C21: the status protocol of the parsing script.  Of every run, at every
\* moment: the statement it works on had status 'not_parsed' in the list it
\* fetched; the run downloads and parses only after it has set the status to
\* 'parsing'; it has set 'parsed' only after 'parsing', after
\* parse_statement_pdf returned, with every transaction found in the
\* transactions table, and without any failure; after a failure of the
\* download, the parse or the insert it never sets 'parsed', and when it
\* goes on to the next statement it has set 'error'.
C21_StatusProtocol ==
    \A r \in 1..MaxRuns :
        AtStatement(r) =>
            /\ runs[r].seen[stmt_id(r)] = "not_parsed"
            /\ runs[r].pc \in {"download_pdf", "parse_statement_pdf",
                               "insert_transactions_batch", "parsed"}
                  => runs[r].marked = <<"parsing">>
            /\ runs[r].pdf_bytes /= NoPdf => runs[r].marked /= <<>>
            /\ \A k \in 1..Len(runs[r].marked) :
                  runs[r].marked[k] = "parsed" =>
                      /\ k = 2 /\ runs[r].marked[1] = "parsing"
                      /\ ~runs[r].failed
                      /\ runs[r].outcome.status = "returned"
                      /\ HoldsRows(db_transactions, RowsFound(r))
            /\ runs[r].failed =>
                  /\ \A k \in 1..Len(runs[r].marked) : runs[r].marked[k] /= "parsed"
                  /\ runs[r].pc = "statements" => runs[r].marked = <<"parsing", "error">>
                  /\ runs[r].returned = 0 /\ runs[r].pc = "exit"
                        => runs[r].marked = <<"parsing", "error">>

\* a run set a statement with two transactions to 'parsed' and went on to a
\* statement whose parse raised, which it set to 'error', while the other
\* run works on a statement too
C21_ParsedThenError ==
    \E r, q \in 1..MaxRuns :
        /\ r /= q
        /\ runs[r].idx = 2
        /\ runs[r].failed /\ runs[r].outcome.status = "raised"
        /\ runs[r].marked = <<"parsing", "error">>
        /\ db_status[runs[r].statements[1]] = "parsed"
        /\ runs[r].statements[1] \in runs[r].inserted
        /\ db_status[stmt_id(r)] = "error"
        /\ AtStatement(q)

\* run r is the only run that has started
RunsAlone(r) == \A q \in 1..MaxRuns : q /= r => runs[q].pc = "start"

\* C23: when a run that ran alone has ended, every statement it fetched
\* that has a storage path has status 'parsed' or 'error'
C23_EveryStatementSettled ==
    \A r \in 1..MaxRuns :
        runs[r].pc = "exit" /\ RunsAlone(r) =>
            \A k \in 1..Len(runs[r].statements) :
                db_statements[runs[r].statements[k]].storage_path /= ""
                    => db_status[runs[r].statements[k]] \in {"parsed", "error"}

\* C24: when a run that ran alone has ended, no statement whose
\* transactions it inserted has status 'error'
C24_NoRowsOfFailedStatement ==
    \A r \in 1..MaxRuns :
        runs[r].pc = "exit" /\ RunsAlone(r) =>
            \A id \in runs[r].inserted : db_status[id] /= "error"

\* C25: no two runs insert the transactions of the same statement
C25_InsertedAtMostOnce ==
    \A r, q \in 1..MaxRuns :
        r /= q => runs[r].inserted \cap runs[q].inserted = {}

====
